---------------------------- MODULE Spec2Model ----------------------------
(* A model of hyli: the fence-aware lexer (src/src/lexer.rs), the          *)
(* error-tolerant recursive-descent parser with its TreeBuilder            *)
(* (src/src/parser.rs) and the conversion of the concrete syntax tree to   *)
(* the semantic tree (src/src/tree.rs), and the transform engine           *)
(* (src/src/processor.rs) and the line of an offset in the source          *)
(* (src/src/syntax_error.rs).                                              *)
(*                                                                         *)
(* The input is a sequence of one-character strings.  Every character of   *)
(* the model is ASCII, so a byte offset is a character index.              *)
EXTENDS Integers, Sequences, FiniteSets, TLC

VARIABLES
    input,      \* Lexer.input: the source text
    tokens,     \* the Lexer: [pos, mode, buffer]
    builder,    \* the TreeBuilder: [wip, errors], and the panic it reached
    stack,      \* the parser's call stack (innermost frame last)
    ret,        \* the value returned by the last parser function to return
    result,     \* the ParseResult of parse, once it has returned
    last,       \* the token returned by the last peek or pop
    popped,     \* every token returned by pop so far, in order
    steps,      \* the number of blocks of the parser run so far
    proc,       \* a call of Processor::process: the table, the tree, the
                \* call stack, the transforms invoked and the tree returned
    line,       \* a call of pos_to_line: pos, source and the line returned
    shown       \* the input and the tree of the parse whose tree, written
                \* out, is the input now

vars ==
    <<input, tokens, builder, stack, ret, result, last, popped, steps, proc, line, shown>>

-----------------------------------------------------------------------------
(* Bounds of the model *)

MaxLen == 4          \* longest input of the exhaustive family
MaxBody == 3         \* longest body of a fenced element
MaxHash == 2         \* most '#' in a fence
StepsPerChar == 6    \* blocks of the parser per input character (StepBound)
MaxPops == 6         \* most pop calls of the free lexer client
MaxAttrs == 2        \* most attributes of an open tag
MaxDepth == 8        \* calls of process the stack has room for
MaxExpand == 3       \* nested calls of process on the output of a transform (Expand)
MaxSource == 4       \* longest source of a pos_to_line call
MaxItems == 3        \* most nodes in the body of an element
MaxExtra == 2        \* most '#' a close tag carries beyond its fence
MaxValue == 4        \* longest attribute value with escapes
MaxSymbols == 2      \* longest text of syntax characters in a document written out

-----------------------------------------------------------------------------
(* Characters *)

None == <<>>
Some(x) == <<x>>

LowerCase == {"a","b","c","d","e","f","g","h","i","j","k","l","m",
              "n","o","p","q","r","s","t","u","v","w","x","y","z"}
UpperCase == {"A","B","C","D","E","F","G","H","I","J","K","L","M",
              "N","O","P","Q","R","S","T","U","V","W","X","Y","Z"}
Digits == {"0","1","2","3","4","5","6","7","8","9"}

is_whitespace(c) == c \in {" ", "\t", "\n", "\r"}

is_name_start(c) == c \in LowerCase \cup UpperCase

is_name_continue(c) == is_name_start(c) \/ c \in Digits \cup {".", "_", "-"}

WhitespaceChars == {" ", "\t", "\n", "\r"}
NameContinueChars == LowerCase \cup UpperCase \cup Digits \cup {".", "_", "-"}

Min(a, b) == IF a < b THEN a ELSE b

-----------------------------------------------------------------------------
(* The lexer.  A position p is the number of characters consumed: the next *)
(* character is input[p + 1].                                              *)

Inside(n) == [kind |-> "Inside", hash_count |-> n]
Outside(n) == [kind |-> "Outside", hash_count |-> n]

peek_nth(p, n) == IF p + n < Len(input) THEN Some(input[p + n + 1]) ELSE None

peek_char(p) == peek_nth(p, 0)

Token(kind, start, end) ==
    [kind |-> kind, text |-> SubSeq(input, start + 1, end), start |-> start, end |-> end]

\* Eof without its position
eof_at_zero(p) == [kind |-> "Eof", text |-> <<>>, start |-> 0, end |-> 0]

eof(p) == [kind |-> "Eof", text |-> <<>>, start |-> p, end |-> p]

\* skip_while(pred): the position after the longest run of characters of S at p
RECURSIVE skip_while(_, _)
skip_while(p, S) ==
    IF peek_char(p) # None /\ peek_char(p)[1] \in S THEN skip_while(p + 1, S) ELSE p

skip_whitespace(p) == skip_while(p, WhitespaceChars)

\* a close that leaves the hashes of the fence to the next read
read_langle_no_fence(p, hash_count, mode) ==
    IF peek_char(p) = Some("/")
    THEN [kind |-> "LAngleSlash", pos |-> p + 1, mode |-> Inside(0)]
    ELSE [kind |-> "LAngle", pos |-> p, mode |-> mode]

\* read_langle, after the '<' was consumed: [kind, pos, mode]
read_langle(p, hash_count, mode) ==
    IF peek_char(p) = Some("/")
    THEN [kind |-> "LAngleSlash",
          pos |-> IF hash_count > 0 THEN Min(Len(input), p + 1 + hash_count) ELSE p + 1,
          mode |-> Inside(0)]
    ELSE [kind |-> "LAngle", pos |-> p, mode |-> mode]

\* a '>' that opens a body with no fence whatever the hashes before it
read_rangle_plain(p, hash_count) ==
    [kind |-> "RAngle", pos |-> p, mode |-> Outside(0)]

read_rangle(p, hash_count) ==
    [kind |-> "RAngle", pos |-> p, mode |-> Outside(hash_count)]

\* read_hashes, after the first '#' was consumed
hashes_end(p, q, mode) ==
    LET hash_count == 1 + (q - p)
    IN  IF peek_char(q) = Some(">")
        THEN read_rangle(q + 1, hash_count)
        ELSE [kind |-> "OrphanHashes", pos |-> q, mode |-> mode]

read_hashes(p, mode) == hashes_end(p, skip_while(p, {"#"}), mode)

\* read_attr_val, after the opening quote was consumed
\* a value in which every backslash escapes the character after it
RECURSIVE attr_val_loop_greedy(_, _)
attr_val_loop_greedy(p, escape_next) ==
    IF peek_char(p) = None THEN [kind |-> "UnterminatedAttrVal", pos |-> p]
    ELSE LET c == peek_char(p)[1] IN
         IF c = "\n" \/ c = "\r" THEN [kind |-> "UnterminatedAttrVal", pos |-> p]
         ELSE IF c = "\\" THEN attr_val_loop_greedy(p + 1, TRUE)
         ELSE IF c = "\"" /\ ~escape_next THEN [kind |-> "AttrVal", pos |-> p + 1]
         ELSE attr_val_loop_greedy(p + 1, FALSE)

RECURSIVE attr_val_loop(_, _)
attr_val_loop(p, escape_next) ==
    IF peek_char(p) = None THEN [kind |-> "UnterminatedAttrVal", pos |-> p]
    ELSE LET c == peek_char(p)[1] IN
         IF c = "\n" \/ c = "\r" THEN [kind |-> "UnterminatedAttrVal", pos |-> p]
         ELSE IF c = "\\" /\ ~escape_next THEN attr_val_loop(p + 1, TRUE)
         ELSE IF c = "\"" /\ ~escape_next THEN [kind |-> "AttrVal", pos |-> p + 1]
         ELSE attr_val_loop(p + 1, FALSE)

with_mode(r, mode) == [kind |-> r.kind, pos |-> r.pos, mode |-> mode]

read_attr_val(p, mode) == with_mode(attr_val_loop(p, FALSE), mode)

read_name(p, mode) ==
    [kind |-> "Name", pos |-> skip_while(p, NameContinueChars), mode |-> mode]

\* .chars.clone().skip(2).take(hash_count).all(|c| c == '#') at position p
fence_follows(p, hash_count) ==
    \A i \in 1..hash_count : peek_nth(p, 1 + i) = None \/ peek_nth(p, 1 + i) = Some("#")

\* a loop that looks for "</" whatever the fence, also without one
RECURSIVE outside_loop_fenced(_, _)
outside_loop_fenced(p, hash_count) ==
    IF peek_char(p) = None THEN p
    ELSE IF /\ peek_char(p) = Some("<")
            /\ peek_nth(p, 1) = Some("/")
            /\ fence_follows(p, hash_count)
         THEN p
    ELSE outside_loop_fenced(p + 1, hash_count)

\* the loop of read_outside: the position at which the Text token ends
RECURSIVE outside_loop(_, _)
outside_loop(p, hash_count) ==
    IF peek_char(p) = None THEN p
    ELSE IF peek_char(p) = Some("<")
         THEN IF hash_count = 0 THEN p
              ELSE IF peek_nth(p, 1) = Some("/") /\ fence_follows(p, hash_count) THEN p
              ELSE outside_loop(p + 1, hash_count)
    ELSE outside_loop(p + 1, hash_count)

\* the end of read_inside: the span of a quoted value excludes the quotes
\* a span that keeps the opening quote of an unterminated value
inside_token_quoted(start, r) ==
    LET s == IF r.kind = "AttrVal" THEN start + 1 ELSE start
        e == IF r.kind = "AttrVal" THEN r.pos - 1 ELSE r.pos
    IN  [tok |-> Token(r.kind, s, e), pos |-> r.pos, mode |-> r.mode]

inside_token(start, r) ==
    LET s == IF r.kind \in {"AttrVal", "UnterminatedAttrVal"} THEN start + 1 ELSE start
        e == IF r.kind = "AttrVal" THEN r.pos - 1 ELSE r.pos
    IN  [tok |-> Token(r.kind, s, e), pos |-> r.pos, mode |-> r.mode]

\* read_next at position p in mode m: [tok, pos, mode]
RECURSIVE read_next(_, _)
\* read_inside after skip_whitespace, at position start
inside_at(start, hash_count) ==
    IF peek_char(start) = None
    THEN [tok |-> eof(start), pos |-> start, mode |-> Inside(hash_count)]
    ELSE LET c == input[start + 1]
             p == start + 1
             m == Inside(hash_count)
         IN  IF c \notin {"<", ">", "#", "=", "\""} /\ ~is_name_start(c)
             THEN read_next(p, Outside(0))
             ELSE inside_token(start,
                      CASE c = "<" -> read_langle(p, hash_count, m)
                        [] c = ">" -> read_rangle(p, 0)
                        [] c = "#" -> read_hashes(p, m)
                        [] c = "=" -> [kind |-> "Equals", pos |-> p, mode |-> m]
                        [] c = "\"" -> read_attr_val(p, m)
                        [] OTHER -> read_name(p, m))

\* an Eof placed where the read began, before the whitespace it skipped
read_inside_early(p0, hash_count) ==
    IF peek_char(skip_whitespace(p0)) = None
    THEN [tok |-> eof(p0), pos |-> skip_whitespace(p0), mode |-> Inside(hash_count)]
    ELSE inside_at(skip_whitespace(p0), hash_count)

read_inside(p0, hash_count) == inside_at(skip_whitespace(p0), hash_count)

\* read_outside after its loop stopped at position end
outside_end(start, end, hash_count) ==
    IF end > start
    THEN [tok |-> Token("Text", start, end), pos |-> end, mode |-> Inside(hash_count)]
    ELSE read_next(end, Inside(hash_count))

read_outside(start, hash_count) ==
    outside_end(start, outside_loop(start, hash_count), hash_count)

read_next(p, m) ==
    IF m.kind = "Inside" THEN read_inside(p, m.hash_count)
    ELSE read_outside(p, m.hash_count)

\* Lexer::from
LexerFrom == [pos |-> 0, mode |-> Outside(0), buffer |-> None]

\* peek: the Lexer after it; the token it returns is the buffered one
buffer_read(r) == [pos |-> r.pos, mode |-> r.mode, buffer |-> Some(r.tok)]

peek(lx) ==
    IF lx.buffer = None THEN buffer_read(read_next(lx.pos, lx.mode)) ELSE lx

\* pop: the Lexer after it, and the token it returns
return_read(r) ==
    [tokens |-> [pos |-> r.pos, mode |-> r.mode, buffer |-> None], tok |-> r.tok]

\* a pop that reads on whatever the buffer holds
pop_rereads(lx) == return_read(read_next(lx.pos, lx.mode))

pop(lx) ==
    IF lx.buffer # None
    THEN [tokens |-> [lx EXCEPT !.buffer = None], tok |-> lx.buffer[1]]
    ELSE return_read(read_next(lx.pos, lx.mode))

-----------------------------------------------------------------------------
(* The TreeBuilder.  A frame of wip is InProgress {kind, start} or         *)
(* Complete {tree}; a tree is [kind, text, start, end, children], text     *)
(* being the String a TagName, AttrName, AttrVal or TextNode kind carries. *)
(* panic is the message of the panic! the builder reached, if any.         *)

Tree(kind, text, start, end, children) ==
    [kind |-> kind, text |-> text, start |-> start, end |-> end, children |-> children]

InProgress(kind, text, start) ==
    [state |-> "InProgress", tree |-> Tree(kind, text, start, start, <<>>)]

Complete(tree) == [state |-> "Complete", tree |-> tree]

SyntaxError(message, args, start, end) ==
    [message |-> message, args |-> args, start |-> start, end |-> end]

\* TreeBuilder::new
TreeBuilderNew == [wip |-> <<>>, errors |-> <<>>, panic |-> None]

open(b, kind, text, start) ==
    [b EXCEPT !.wip = Append(@, InProgress(kind, text, start))]

add_error(b, error) == [b EXCEPT !.errors = Append(@, error)]

Reverse(s) == [i \in 1..Len(s) |-> s[Len(s) + 1 - i]]

Front(s) == SubSeq(s, 1, Len(s) - 1)

\* complete with the children left in the order they were popped
RECURSIVE complete_loop_unreversed(_, _, _)
complete_loop_unreversed(b, end, children) ==
    IF b.wip = <<>> THEN [b EXCEPT !.panic = Some("No open item to complete")]
    ELSE LET item == b.wip[Len(b.wip)]
             rest == [b EXCEPT !.wip = Front(@)]
         IN  IF item.state = "InProgress"
             THEN [rest EXCEPT !.wip = Append(@, Complete(
                      Tree(item.tree.kind, item.tree.text, item.tree.start, end,
                           children)))]
             ELSE complete_loop_unreversed(rest, end, Append(children, item.tree))

\* the loop of complete: pop Complete frames into children until an
\* InProgress frame is popped; panic when wip runs out first
RECURSIVE complete_loop(_, _, _)
complete_loop(b, end, children) ==
    IF b.wip = <<>> THEN [b EXCEPT !.panic = Some("No open item to complete")]
    ELSE LET item == b.wip[Len(b.wip)]
             rest == [b EXCEPT !.wip = Front(@)]
         IN  IF item.state = "InProgress"
             THEN [rest EXCEPT !.wip = Append(@, Complete(
                      Tree(item.tree.kind, item.tree.text, item.tree.start, end,
                           Reverse(children))))]
             ELSE complete_loop(rest, end, Append(children, item.tree))

complete(b, end) == complete_loop(b, end, <<>>)

\* take: the builder after it, and the ParseResult it returns
take(b) ==
    IF Len(b.wip) = 0 THEN [b EXCEPT !.panic = Some("No tree")]
    ELSE IF Len(b.wip) > 1 THEN [b EXCEPT !.panic = Some("Unmatched open")]
    ELSE IF b.wip[1].state = "Complete" THEN [b EXCEPT !.wip = <<>>]
    ELSE [b EXCEPT !.wip = <<>>, !.panic = Some("Unmatched open")]

taken(b) == [result |-> b.wip[1].tree, errors |-> b.errors]

-----------------------------------------------------------------------------
(* The parser.  The functions that call one another recursively or loop    *)
(* (parse, parse_document, parse_nodes, parse_inner_node, parse_open_tag,  *)
(* parse_attrs) run on the call stack, one action per basic block;         *)
(* parse_text_node, parse_attr and parse_close_tag are run whole inside    *)
(* the block that calls them.  A block works on c = [tokens, builder,      *)
(* popped] and commits it.                                                 *)

Ctx == [tokens |-> tokens, builder |-> builder, popped |-> popped]

c_peek(c) == [c EXCEPT !.tokens = peek(@)]

\* the token the peek before returned
Peeked(c) == c.tokens.buffer[1]

c_popped(c, r) == [c EXCEPT !.tokens = r.tokens, !.popped = Append(@, r.tok)]

c_pop(c) == c_popped(c, pop(c.tokens))

\* the token the pop before returned
Popped(c) == c.popped[Len(c.popped)]

c_open(c, kind, text, start) == [c EXCEPT !.builder = open(@, kind, text, start)]

c_complete(c, end) == [c EXCEPT !.builder = complete(@, end)]

c_error(c, message, args, start, end) ==
    [c EXCEPT !.builder = add_error(@, SyntaxError(message, args, start, end))]

Commit(c) ==
    /\ tokens' = c.tokens
    /\ builder' = c.builder
    /\ popped' = c.popped

\* a frame: the function, the block to run next, the function's tag_name /
\* open_tag_name local, and the number of tokens popped when the frame's
\* loop last started an iteration (-1 before the first)
Frame(fn) == [fn |-> fn, pc |-> "start", name |-> None, mark |-> -1]

Top == stack[Len(stack)]

At(fn, pc) ==
    /\ builder.panic = None
    /\ stack # <<>>
    /\ Top.fn = fn
    /\ Top.pc = pc

Goto(pc) == stack' = [stack EXCEPT ![Len(stack)].pc = pc]

Iterate == stack' = [stack EXCEPT ![Len(stack)].mark = Len(popped)]

Call(fn, pc) == stack' = Append([stack EXCEPT ![Len(stack)].pc = pc], Frame(fn))

CallIterate(fn) ==
    stack' = Append([stack EXCEPT ![Len(stack)].mark = Len(popped)], Frame(fn))

Return(v) ==
    /\ stack' = Front(stack)
    /\ ret' = v

Tick == steps' = steps + 1

\* a TextNode opened and never completed
text_node_left_open(c) == c_open(c, "TextNode", Popped(c).text, Popped(c).start)

\* parse_text_node, after let text = tokens.pop()
text_node_end(c) ==
    c_complete(c_open(c, "TextNode", Popped(c).text, Popped(c).start), Popped(c).end)

parse_text_node(c) == text_node_end(c_pop(c))

\* parse_attr, after the pop of the value: open, complete, complete(end)
\* an Attr completed where its value starts
attr_value_at_start(c, end) ==
    c_complete(c_complete(c_open(c, "AttrVal", Popped(c).text, Popped(c).start),
                          Popped(c).end), Popped(c).start)

attr_value(c, end) ==
    c_complete(c_complete(c_open(c, "AttrVal", Popped(c).text, Popped(c).start),
                          Popped(c).end), end)

\* parse_attr, from the second peek (c is the state after it)
attr_after_equals(c) ==
    IF Peeked(c).kind \in {"AttrVal", "UnterminatedAttrVal"}
    THEN attr_value(c_pop(IF Peeked(c).kind = "UnterminatedAttrVal"
                          THEN c_error(c, "unterminated attribute value", <<>>,
                                       Peeked(c).start, Peeked(c).end)
                          ELSE c),
                    Peeked(c).end)
    ELSE c_complete(c_error(c, "expected attribute value", <<>>,
                            Peeked(c).start, Peeked(c).end), Peeked(c).start)

\* parse_attr, from the first peek (c is the state after it)
attr_after_name(c) ==
    CASE Peeked(c).kind = "Equals" -> attr_after_equals(c_peek(c_pop(c)))
      [] Peeked(c).kind \in {"AttrVal", "UnterminatedAttrVal"} ->
             attr_after_equals(c_peek(c_error(c, "expected '='", <<>>,
                                              Peeked(c).start, Peeked(c).end)))
      [] OTHER -> c_complete(c_error(c, "expected '=', followed by attribute value",
                                     <<>>, Peeked(c).start, Peeked(c).end),
                             Peeked(c).start)

\* parse_attr, after let name = tokens.pop()
attr_name(c) ==
    c_complete(c_open(c_open(c, "Attr", <<>>, Popped(c).start),
                      "AttrName", Popped(c).text, Popped(c).start), Popped(c).end)

parse_attr(c) == attr_after_name(c_peek(attr_name(c_pop(c))))

CloseTag(name, start, end) == [name |-> name, start |-> start, end |-> end]

\* parse_close_tag, from the last peek (c is the state after it): [c, tag_info]
close_tag_end(c, tag_info) ==
    IF Peeked(c).kind = "RAngle"
    THEN [c |-> c_complete(c_pop(c), Peeked(c).end), tag_info |-> tag_info]
    ELSE [c |-> c_complete(c_error(c, "expected '>'", <<>>,
                                   Peeked(c).start, Peeked(c).end), Peeked(c).start),
          tag_info |-> tag_info]

\* parse_close_tag, after the pop of the Name
close_tag_name(c) ==
    c_complete(c_open(c, "TagName", Popped(c).text, Popped(c).start), Popped(c).end)

\* parse_close_tag, from the peek after the orphaned hashes
close_tag_after_hashes(c) ==
    CASE Peeked(c).kind = "Name" ->
             close_tag_end(c_peek(close_tag_name(c_pop(c))),
                           Some(CloseTag(Peeked(c).text, Peeked(c).start, Peeked(c).end)))
      [] Peeked(c).kind = "RAngle" ->
             close_tag_end(c_peek(c_error(c, "expected tag name", <<>>,
                                          Peeked(c).start, Peeked(c).end)), None)
      [] OTHER ->
             [c |-> c_complete(c_error(c, "expected tag name, followed by '>'", <<>>,
                                       Peeked(c).start, Peeked(c).end), Peeked(c).start),
              tag_info |-> None]

\* orphaned hashes reported and left in the lexer
close_tag_hashes_kept(c) ==
    IF Peeked(c).kind = "OrphanHashes"
    THEN close_tag_after_hashes(c_peek(c_error(c, "orphaned hashes", <<>>,
                                               Peeked(c).start, Peeked(c).end)))
    ELSE close_tag_after_hashes(c_peek(c))

\* parse_close_tag, from the first peek
close_tag_hashes(c) ==
    IF Peeked(c).kind = "OrphanHashes"
    THEN close_tag_after_hashes(c_peek(c_error(c_pop(c), "orphaned hashes", <<>>,
                                               Peeked(c).start, Peeked(c).end)))
    ELSE close_tag_after_hashes(c_peek(c))

\* parse_close_tag, after let langle_slash = tokens.pop()
close_tag_open(c) == c_open(c, "CloseTag", <<>>, Popped(c).start)

parse_close_tag(c) == close_tag_hashes(c_peek(close_tag_open(c_pop(c))))

\* parse_inner_node, after parse_close_tag returned r = [c, tag_info]:
\* builder.complete(tokens.peek().start) and the match of the names
\* a match that completes the InnerNode and reports nothing
inner_node_match_silent(c, open_tag_name, close_tag) ==
    c_complete(c, Peeked(c).start)

\* a match that reports at the token after the close tag
inner_node_match_at_peek(c, open_tag_name, close_tag) ==
    IF /\ open_tag_name # None
       /\ close_tag # None
       /\ open_tag_name[1] # close_tag[1].name
    THEN c_error(c_complete(c, Peeked(c).start), "closing tag must match opening",
                 <<open_tag_name[1], close_tag[1].name>>,
                 Peeked(c).start, Peeked(c).end)
    ELSE c_complete(c, Peeked(c).start)

inner_node_match(c, open_tag_name, close_tag) ==
    IF /\ open_tag_name # None
       /\ close_tag # None
       /\ open_tag_name[1] # close_tag[1].name
    THEN c_error(c_complete(c, Peeked(c).start), "closing tag must match opening",
                 <<open_tag_name[1], close_tag[1].name>>,
                 close_tag[1].start, close_tag[1].end)
    ELSE c_complete(c, Peeked(c).start)

inner_node_closed(r, open_tag_name) ==
    inner_node_match(c_peek(r.c), open_tag_name, r.tag_info)

\* an end of the InnerNode that parses a close tag at Eof too
inner_node_end_closes(c, open_tag_name) ==
    inner_node_closed(parse_close_tag(c), open_tag_name)

\* an end of the InnerNode that reports no missing close tag
inner_node_end_silent(c, open_tag_name) ==
    IF Peeked(c).kind = "Eof"
    THEN c_complete(c, Peeked(c).start)
    ELSE inner_node_closed(parse_close_tag(c), open_tag_name)

\* parse_inner_node, from the peek after parse_nodes (c is the state after it)
inner_node_end(c, open_tag_name) ==
    IF Peeked(c).kind = "Eof"
    THEN c_error(c_complete(c, Peeked(c).start),
                 "expected closing tag, but found EOF", <<>>,
                 Peeked(c).start, Peeked(c).end)
    ELSE inner_node_closed(parse_close_tag(c), open_tag_name)

\* parse: create the Lexer and the TreeBuilder (Init), call parse_document
parse_start ==
    /\ At("parse", "start")
    /\ Call("parse_document", "take")
    /\ UNCHANGED <<input, proc, line, shown, tokens, builder, ret, result, last, popped>>
    /\ Tick

\* parse: builder.take()
parse_take ==
    /\ At("parse", "take")
    /\ builder' = take(builder)
    /\ result' = IF builder'.panic = None THEN Some(taken(builder)) ELSE None
    /\ stack' = <<>>
    /\ UNCHANGED <<input, proc, line, shown, tokens, ret, last, popped>>
    /\ Tick

\* parse_document: builder.open(Document, tokens.peek().start)
document_opened(c) == c_open(c, "Document", <<>>, Peeked(c).start)

document_open ==
    /\ At("parse_document", "start")
    /\ Commit(document_opened(c_peek(Ctx)))
    /\ Goto("skip")
    /\ UNCHANGED <<input, proc, line, shown, ret, result, last>>
    /\ Tick

\* a skip to the first '<' that reports every token it skips
document_skip_reporting(c) ==
    CASE Peeked(c).kind = "LAngle" ->
             /\ Commit(c)
             /\ Goto("inner")
             /\ UNCHANGED ret
      [] Peeked(c).kind = "Eof" ->
             /\ Commit(c_complete(c_error(c, "unexpected EOF", <<>>,
                                          Peeked(c).start, Peeked(c).end),
                                  Peeked(c).start))
             /\ Return(None)
      [] OTHER ->
             /\ Commit(c_pop(c_error(c, "unexpected EOF", <<>>,
                                     Peeked(c).start, Peeked(c).end)))
             /\ Iterate
             /\ UNCHANGED ret

\* parse_document: one iteration of the loop that skips to the first '<'
document_skip_on(c) ==
    CASE Peeked(c).kind = "LAngle" ->
             /\ Commit(c)
             /\ Goto("inner")
             /\ UNCHANGED ret
      [] Peeked(c).kind = "Eof" ->
             /\ Commit(c_complete(c_error(c, "unexpected EOF", <<>>,
                                          Peeked(c).start, Peeked(c).end),
                                  Peeked(c).start))
             /\ Return(None)
      [] OTHER ->
             /\ Commit(c_pop(c))
             /\ Iterate
             /\ UNCHANGED ret

document_skip ==
    /\ At("parse_document", "skip")
    /\ document_skip_on(c_peek(Ctx))
    /\ UNCHANGED <<input, proc, line, shown, result, last>>
    /\ Tick

\* parse_document: parse_inner_node(builder, tokens)
document_inner ==
    /\ At("parse_document", "inner")
    /\ Call("parse_inner_node", "tail")
    /\ UNCHANGED <<input, proc, line, shown, tokens, builder, ret, result, last, popped>>
    /\ Tick

\* the loop that skips to Eof peeking without popping
document_tail_no_pop(c) ==
    IF Peeked(c).kind = "Eof"
    THEN /\ Commit(c_complete(c, Peeked(c).start))
         /\ Return(None)
    ELSE /\ Commit(c)
         /\ Iterate
         /\ UNCHANGED ret

\* parse_document: one iteration of the loop that skips to Eof, and the
\* builder.complete(tokens.peek().start) after it
document_tail_on(c) ==
    IF Peeked(c).kind = "Eof"
    THEN /\ Commit(c_complete(c, Peeked(c).start))
         /\ Return(None)
    ELSE /\ Commit(c_pop(c))
         /\ Iterate
         /\ UNCHANGED ret

document_tail ==
    /\ At("parse_document", "tail")
    /\ document_tail_on(c_peek(Ctx))
    /\ UNCHANGED <<input, proc, line, shown, result, last>>
    /\ Tick

\* parse_nodes: one iteration of the loop
nodes_loop_on(c) ==
    CASE Peeked(c).kind \in {"LAngleSlash", "Eof"} ->
             /\ Commit(c)
             /\ Return(None)
      [] Peeked(c).kind = "LAngle" ->
             /\ Commit(c)
             /\ CallIterate("parse_inner_node")
             /\ UNCHANGED ret
      [] Peeked(c).kind = "Text" ->
             /\ Commit(parse_text_node(c))
             /\ Iterate
             /\ UNCHANGED ret
      [] OTHER ->
             /\ Commit(c_pop(c_error(c, "expected '<', \"</\", or text, but found",
                                     <<Peeked(c).text>>, Peeked(c).start, Peeked(c).end)))
             /\ Iterate
             /\ UNCHANGED ret

nodes_loop ==
    /\ At("parse_nodes", "start")
    /\ nodes_loop_on(c_peek(Ctx))
    /\ UNCHANGED <<input, proc, line, shown, result, last>>
    /\ Tick

\* parse_inner_node: builder.open(InnerNode, ..) and the call of parse_open_tag
inner_node_opened(c) == c_open(c, "InnerNode", <<>>, Peeked(c).start)

inner_node_open ==
    /\ At("parse_inner_node", "start")
    /\ Commit(inner_node_opened(c_peek(Ctx)))
    /\ Call("parse_open_tag", "nodes")
    /\ UNCHANGED <<input, proc, line, shown, ret, result, last>>
    /\ Tick

\* parse_inner_node: let open_tag_name = (returned); parse_nodes(builder, tokens)
inner_node_nodes ==
    /\ At("parse_inner_node", "nodes")
    /\ stack' = Append([stack EXCEPT ![Len(stack)].pc = "close",
                                     ![Len(stack)].name = ret],
                       Frame("parse_nodes"))
    /\ UNCHANGED <<input, proc, line, shown, tokens, builder, ret, result, last, popped>>
    /\ Tick

\* parse_inner_node: from the peek after parse_nodes to the return
inner_node_close ==
    /\ At("parse_inner_node", "close")
    /\ Commit(inner_node_end(c_peek(Ctx), Top.name))
    /\ Return(None)
    /\ UNCHANGED <<input, proc, line, shown, result, last>>
    /\ Tick

\* parse_open_tag: from the pop of '<' to the call of parse_attrs
open_tag_opened(c) == c_open(c, "OpenTag", <<>>, Popped(c).start)

\* an open tag that builds no TagName node
open_tag_unnamed(c) == c

open_tag_name(c) ==
    c_complete(c_open(c, "TagName", Popped(c).text, Popped(c).start), Popped(c).end)

\* an open tag that gives up on every token that is not a Name
open_tag_start_early(c) ==
    IF Peeked(c).kind = "Name"
    THEN /\ Commit(open_tag_name(c_pop(c)))
         /\ stack' = Append([stack EXCEPT ![Len(stack)].pc = "end",
                                          ![Len(stack)].name = Some(Peeked(c).text)],
                            Frame("parse_attrs"))
         /\ UNCHANGED ret
    ELSE /\ Commit(c_complete(c_error(c,
                IF Peeked(c).kind \in {"Equals", "AttrVal", "RAngle"}
                THEN "expected tag name"
                ELSE "expected tag name, followed by attributes and '>'", <<>>,
                Peeked(c).start, Peeked(c).end), Peeked(c).start))
         /\ Return(None)

open_tag_start_on(c) ==
    CASE Peeked(c).kind = "Name" ->
             /\ Commit(open_tag_name(c_pop(c)))
             /\ stack' = Append([stack EXCEPT ![Len(stack)].pc = "end",
                                              ![Len(stack)].name = Some(Peeked(c).text)],
                                Frame("parse_attrs"))
             /\ UNCHANGED ret
      [] Peeked(c).kind \in {"Equals", "AttrVal", "RAngle"} ->
             /\ Commit(c_error(c, "expected tag name", <<>>,
                               Peeked(c).start, Peeked(c).end))
             /\ Call("parse_attrs", "end")
             /\ UNCHANGED ret
      [] OTHER ->
             /\ Commit(c_complete(c_error(c,
                    "expected tag name, followed by attributes and '>'", <<>>,
                    Peeked(c).start, Peeked(c).end), Peeked(c).start))
             /\ Return(None)

open_tag_start ==
    /\ At("parse_open_tag", "start")
    /\ open_tag_start_on(c_peek(open_tag_opened(c_pop(Ctx))))
    /\ UNCHANGED <<input, proc, line, shown, result, last>>
    /\ Tick

\* parse_open_tag: from the peek after parse_attrs to the return
open_tag_end_on(c) ==
    IF Peeked(c).kind = "RAngle"
    THEN c_complete(c_pop(c), Peeked(c).end)
    ELSE c_complete(c_error(c, "expected '>'", <<>>, Peeked(c).start, Peeked(c).end),
                    Peeked(c).start)

open_tag_end ==
    /\ At("parse_open_tag", "end")
    /\ Commit(open_tag_end_on(c_peek(Ctx)))
    /\ Return(Top.name)
    /\ UNCHANGED <<input, proc, line, shown, result, last>>
    /\ Tick

\* parse_attrs: builder.open(Attrs, tokens.peek().start)
attrs_opened(c) == c_open(c, "Attrs", <<>>, Peeked(c).start)

attrs_open ==
    /\ At("parse_attrs", "start")
    /\ Commit(attrs_opened(c_peek(Ctx)))
    /\ Goto("loop")
    /\ UNCHANGED <<input, proc, line, shown, ret, result, last>>
    /\ Tick

\* parse_attrs: one iteration of the while loop, and the complete after it
attrs_loop_on(c) ==
    IF Peeked(c).kind = "Name"
    THEN /\ Commit(parse_attr(c))
         /\ Iterate
         /\ UNCHANGED ret
    ELSE /\ Commit(c_complete(c, Peeked(c).start))
         /\ Return(None)

attrs_loop ==
    /\ At("parse_attrs", "loop")
    /\ attrs_loop_on(c_peek(Ctx))
    /\ UNCHANGED <<input, proc, line, shown, result, last>>
    /\ Tick

-----------------------------------------------------------------------------
(* The conversion to the semantic tree (tree.rs).  A semantic tree is      *)
(* Text(content) or Inner {tag_name, attrs, children}.  Every function     *)
(* returns [panic, val]: the message of the panic it reached, or its value.*)

Text(content) ==
    [tag |-> "Text", text |-> content, tag_name |-> <<>>, attrs |-> <<>>,
     children |-> <<>>]

Inner(tag_name, attrs, children) ==
    [tag |-> "Inner", text |-> <<>>, tag_name |-> tag_name, attrs |-> attrs,
     children |-> children]

Ok(v) == [panic |-> None, val |-> v]

Panic(message) == [panic |-> Some(message), val |-> <<>>]

\* the values of a sequence of results, or the first panic among them
Collect(rs) ==
    IF \A i \in 1..Len(rs) : rs[i].panic = None
    THEN Ok([i \in 1..Len(rs) |-> rs[i].val])
    ELSE rs[CHOOSE i \in 1..Len(rs) :
                /\ rs[i].panic # None
                /\ \A j \in 1..(i - 1) : rs[j].panic = None]

\* Vec::swap
Swap(s, i, j) == [s EXCEPT ![i] = s[j], ![j] = s[i]]

\* tree.rs parse_attr
tree_parse_attr(tree) ==
    IF tree.kind # "Attr" THEN Panic("assertion failed: Attr")
    ELSE IF Len(tree.children) = 0 THEN Panic("expected attribute value")
    ELSE IF Len(tree.children) = 1 THEN Panic("expected attribute name")
    ELSE LET value == tree.children[Len(tree.children)]
             name == tree.children[Len(tree.children) - 1]
         IN  IF name.kind = "AttrName" /\ value.kind = "AttrVal"
             THEN Ok(<<name.text, value.text>>)
             ELSE IF name.kind = "AttrName" THEN Panic("expected attribute value kind")
             ELSE IF value.kind = "AttrVal" THEN Panic("expected attribute name kind")
             ELSE Panic("expected attribute name and attribute value kinds")

\* a conversion that returns the attributes last first
tree_parse_attrs_reversed(tree) ==
    IF tree.kind # "Attrs" THEN Panic("assertion failed: Attrs")
    ELSE Collect(Reverse([i \in 1..Len(tree.children) |->
                              tree_parse_attr(tree.children[i])]))

\* tree.rs parse_attrs
tree_parse_attrs(tree) ==
    IF tree.kind # "Attrs" THEN Panic("assertion failed: Attrs")
    ELSE Collect([i \in 1..Len(tree.children) |-> tree_parse_attr(tree.children[i])])

\* tree.rs parse_open_tag: the OpenTag {name, attrs}
tree_parse_open_tag(tree) ==
    IF tree.kind # "OpenTag" THEN Panic("assertion failed: OpenTag")
    ELSE IF Len(tree.children) = 0 THEN Panic("expected attributes")
    ELSE IF Len(tree.children) = 1 THEN Panic("expected tag name")
    ELSE LET attrs == tree_parse_attrs(tree.children[Len(tree.children)])
             tag_name == tree.children[Len(tree.children) - 1]
         IN  IF attrs.panic # None THEN attrs
             ELSE IF tag_name.kind = "TagName"
             THEN Ok([name |-> tag_name.text, attrs |-> attrs.val])
             ELSE Panic("expected tag name kind")

\* tree.rs parse_inner, after the swap and the pop of the open tag:
\* children is what is left, close tag first
RECURSIVE tree_parse_inner(_)
tree_parse_node(tree) ==
    CASE tree.kind = "InnerNode" -> tree_parse_inner(tree)
      [] tree.kind = "TextNode" -> Ok(Text(tree.text))
      [] OTHER -> Panic("expected inner node or text")

\* a conversion that returns the body last first
inner_body_reversed(open_tag, children) ==
    IF open_tag.panic # None THEN open_tag
    ELSE IF Len(children) = 0 THEN Panic("expected close tag")
    ELSE IF children[1].kind # "CloseTag" THEN Panic("assertion failed: CloseTag")
    ELSE LET body == Collect([i \in 1..(Len(children) - 1) |->
                                  tree_parse_node(children[Len(children) + 1 - i])])
         IN  IF body.panic # None THEN body
             ELSE Ok(Inner(open_tag.val.name, open_tag.val.attrs, body.val))

inner_body(open_tag, children) ==
    IF open_tag.panic # None THEN open_tag
    ELSE IF Len(children) = 0 THEN Panic("expected close tag")
    ELSE IF children[1].kind # "CloseTag" THEN Panic("assertion failed: CloseTag")
    ELSE LET body == Collect([i \in 1..(Len(children) - 1) |->
                                  tree_parse_node(children[i + 1])])
         IN  IF body.panic # None THEN body
             ELSE Ok(Inner(open_tag.val.name, open_tag.val.attrs, body.val))

inner_swapped(children) ==
    inner_body(tree_parse_open_tag(children[Len(children)]), Front(children))

tree_parse_inner(tree) ==
    IF tree.kind # "InnerNode" THEN Panic("assertion failed: InnerNode")
    ELSE IF Len(tree.children) = 0 THEN Panic("attempt to subtract with overflow")
    ELSE inner_swapped(Swap(tree.children, 1, Len(tree.children)))

\* tree.rs parse_doc
tree_parse_doc(tree) ==
    IF Len(tree.children) = 0 THEN Panic("expected child")
    ELSE IF Len(tree.children) > 1 THEN Panic("expected single child")
    ELSE tree_parse_inner(tree.children[1])

\* impl From<UTree> for Tree
TreeFrom(tree) ==
    IF tree.kind = "Document" THEN tree_parse_doc(tree) ELSE Panic("expected document")

-----------------------------------------------------------------------------
(* Processor (src/src/processor.rs) *)

T == <<"T">>
U == <<"U">>
W == <<"W">>

\* the transforms of the model: functions of (attrs, children)
Transforms ==
    [kind : {"Rename"}, to : {T, U, W}]      \* Inner {to, attrs, children}
        \cup [kind : {"Wrap"}, to : {T, U}]  \* Inner {W, [], [Inner {to, attrs, children}]}
        \cup [kind : {"Drop"}, to : {W}]     \* Text("t")

\* transform(attrs, children)
Apply(transform, attrs, children) ==
    CASE transform.kind = "Rename" -> Inner(transform.to, attrs, children)
      [] transform.kind = "Wrap" ->
             Inner(W, <<>>, <<Inner(transform.to, attrs, children)>>)
      [] OTHER -> Text(<<"t">>)

\* Processor.transforms after any add_transform calls: a map from some of
\* the tag names T and U to transforms
Tables == UNION {[keys -> Transforms] : keys \in SUBSET {T, U}}

\* self.transforms.get(&tag_name)
get(transforms, tag_name) ==
    IF tag_name \in DOMAIN transforms THEN Some(transforms[tag_name]) ELSE None

\* the sequences of at most two elements of S
Kids(S) == {<<>>} \cup {<<a>> : a \in S} \cup {<<a, b>> : a \in S, b \in S}

Leaves == {Text(<<"x">>)} \cup {Inner(t, <<>>, <<>>) : t \in {T, U}}

Shallow ==
    Leaves \cup {Inner(t, a, cs) : t \in {T, U}, a \in {<<>>, <<<<<<"k">>, <<"v">>>>>>},
                                   cs \in Kids(Leaves)}

ProcTrees == Shallow \cup {Inner(t, <<>>, <<c>>) : t \in {T, U}, c \in Shallow}

\* process as a function: the tree it returns, or None where more than
\* fuel nested calls on the output of a transform are needed
RECURSIVE Expand(_, _, _)
Expand(transforms, tree, fuel) ==
    IF tree.tag = "Text" THEN Some(tree)
    ELSE LET children == [i \in 1..Len(tree.children) |->
                              Expand(transforms, tree.children[i], fuel)]
         IN  IF \E i \in 1..Len(children) : children[i] = None THEN None
             ELSE IF get(transforms, tree.tag_name) = None
             THEN Some(Inner(tree.tag_name, tree.attrs,
                             [i \in 1..Len(children) |-> children[i][1]]))
             ELSE IF fuel = 0 THEN None
             ELSE Expand(transforms,
                         Apply(get(transforms, tree.tag_name)[1], tree.attrs,
                               [i \in 1..Len(children) |-> children[i][1]]),
                         fuel - 1)

\* a call of process: [tag_name, attrs] of the tree matched, the children
\* still to map, the children mapped, and the point the call is at
ProcFrame(tree) ==
    [tag_name |-> tree.tag_name, attrs |-> tree.attrs, todo |-> tree.children,
     done |-> <<>>, pc |-> "children"]

\* no call of pos_to_line
NoLine == [pos |-> 0, source |-> <<>>, value |-> None]

NoProcess ==
    [transforms |-> <<>>, tree |-> Text(<<>>), stack |-> <<>>, call |-> None,
     ret |-> None, calls |-> <<>>, result |-> None, overflow |-> FALSE,
     first |-> None]

\* p.process(tree) is called
Process(transforms, tree) ==
    [NoProcess EXCEPT !.transforms = transforms, !.tree = tree, !.call = Some(tree)]

ProcTop == proc.stack[Len(proc.stack)]

Running(pc) ==
    /\ ~proc.overflow
    /\ proc.call = None
    /\ proc.ret = None
    /\ proc.stack # <<>>
    /\ ProcTop.pc = pc

Parsed ==
    UNCHANGED <<input, tokens, builder, stack, ret, result, last, popped, steps, line, shown>>

\* Tree::Text(_) => tree
process_text ==
    /\ ~proc.overflow
    /\ proc.call # None
    /\ proc.call[1].tag = "Text"
    /\ Len(proc.stack) < MaxDepth
    /\ proc' = [proc EXCEPT !.call = None, !.ret = proc.call]
    /\ Parsed

\* Tree::Inner {tag_name, attrs, children} => the map over children begins
process_inner ==
    /\ ~proc.overflow
    /\ proc.call # None
    /\ proc.call[1].tag = "Inner"
    /\ Len(proc.stack) < MaxDepth
    /\ proc' = [proc EXCEPT !.call = None,
                            !.stack = Append(proc.stack, ProcFrame(proc.call[1]))]
    /\ Parsed

\* a call for which the stack has no room left: the program aborts
process_overflow ==
    /\ ~proc.overflow
    /\ proc.call # None
    /\ Len(proc.stack) >= MaxDepth
    /\ proc' = [proc EXCEPT !.overflow = TRUE]
    /\ Parsed

\* a map that takes the children last first
process_child_last ==
    /\ Running("children")
    /\ ProcTop.todo # <<>>
    /\ proc' = [proc EXCEPT !.call = Some(ProcTop.todo[Len(ProcTop.todo)]),
                            !.stack[Len(proc.stack)].todo = Front(ProcTop.todo)]
    /\ Parsed

\* .map(|child| self.process(child)): the call for the next child
process_child ==
    /\ Running("children")
    /\ ProcTop.todo # <<>>
    /\ proc' = [proc EXCEPT !.call = Some(ProcTop.todo[1]),
                            !.stack[Len(proc.stack)].todo = Tail(ProcTop.todo)]
    /\ Parsed

\* .map(|child| self.process(child)): the call for a child has returned
process_child_done ==
    /\ ~proc.overflow
    /\ proc.ret # None
    /\ proc.stack # <<>>
    /\ ProcTop.pc = "children"
    /\ proc' = [proc EXCEPT !.ret = None,
                            !.stack[Len(proc.stack)].done = Append(ProcTop.done, proc.ret[1])]
    /\ Parsed

\* a process that returns what the transform returns as it is
process_transform_once ==
    /\ Running("children")
    /\ ProcTop.todo = <<>>
    /\ get(proc.transforms, ProcTop.tag_name) # None
    /\ proc' = [proc EXCEPT
                    !.calls = Append(proc.calls,
                                     [tag_name |-> ProcTop.tag_name,
                                      attrs |-> ProcTop.attrs,
                                      children |-> ProcTop.done]),
                    !.ret = Some(Apply(get(proc.transforms, ProcTop.tag_name)[1],
                                       ProcTop.attrs, ProcTop.done)),
                    !.stack = Front(proc.stack)]
    /\ Parsed

\* a process with a guard: a tree of the same tag name is returned as it is
process_transform_guarded ==
    /\ Running("children")
    /\ ProcTop.todo = <<>>
    /\ get(proc.transforms, ProcTop.tag_name) # None
    /\ LET out == Apply(get(proc.transforms, ProcTop.tag_name)[1],
                        ProcTop.attrs, ProcTop.done)
           calls == Append(proc.calls,
                           [tag_name |-> ProcTop.tag_name, attrs |-> ProcTop.attrs,
                            children |-> ProcTop.done])
       IN  IF out.tag = "Inner" /\ out.tag_name = ProcTop.tag_name
           THEN proc' = [proc EXCEPT !.calls = calls, !.ret = Some(out),
                                     !.stack = Front(proc.stack)]
           ELSE proc' = [proc EXCEPT !.calls = calls, !.call = Some(out),
                                     !.stack[Len(proc.stack)].pc = "expand"]
    /\ Parsed

\* Some(transform) => self.process(transform(attrs, children)): the
\* transform is invoked and process is called on what it returns
process_transform ==
    /\ Running("children")
    /\ ProcTop.todo = <<>>
    /\ get(proc.transforms, ProcTop.tag_name) # None
    /\ proc' = [proc EXCEPT
                    !.calls = Append(proc.calls,
                                     [tag_name |-> ProcTop.tag_name,
                                      attrs |-> ProcTop.attrs,
                                      children |-> ProcTop.done]),
                    !.call = Some(Apply(get(proc.transforms, ProcTop.tag_name)[1],
                                        ProcTop.attrs, ProcTop.done)),
                    !.stack[Len(proc.stack)].pc = "expand"]
    /\ Parsed

\* a rebuild that turns the children round
process_rebuild_reversed ==
    /\ Running("children")
    /\ ProcTop.todo = <<>>
    /\ get(proc.transforms, ProcTop.tag_name) = None
    /\ proc' = [proc EXCEPT
                    !.ret = Some(Inner(ProcTop.tag_name, ProcTop.attrs,
                                       Reverse(ProcTop.done))),
                    !.stack = Front(proc.stack)]
    /\ Parsed

\* a rebuild that loses the attributes
process_rebuild_bare ==
    /\ Running("children")
    /\ ProcTop.todo = <<>>
    /\ get(proc.transforms, ProcTop.tag_name) = None
    /\ proc' = [proc EXCEPT
                    !.ret = Some(Inner(ProcTop.tag_name, <<>>, ProcTop.done)),
                    !.stack = Front(proc.stack)]
    /\ Parsed

\* None => Tree::Inner {tag_name, attrs, children}
process_rebuild ==
    /\ Running("children")
    /\ ProcTop.todo = <<>>
    /\ get(proc.transforms, ProcTop.tag_name) = None
    /\ proc' = [proc EXCEPT
                    !.ret = Some(Inner(ProcTop.tag_name, ProcTop.attrs, ProcTop.done)),
                    !.stack = Front(proc.stack)]
    /\ Parsed

\* self.process(transform(..)) has returned: its value is the value of the call
process_expanded ==
    /\ ~proc.overflow
    /\ proc.ret # None
    /\ proc.stack # <<>>
    /\ ProcTop.pc = "expand"
    /\ proc' = [proc EXCEPT !.stack = Front(proc.stack)]
    /\ Parsed

\* the outermost call returns to the caller of process
process_return ==
    /\ ~proc.overflow
    /\ proc.ret # None
    /\ proc.stack = <<>>
    /\ proc.result = None
    /\ proc' = [proc EXCEPT !.result = proc.ret]
    /\ Parsed

\* p.process(p.process(tree)): process is called on the tree the call
\* before returned; first keeps that tree and the transforms invoked so far
process_again ==
    /\ ~proc.overflow
    /\ proc.result # None
    /\ proc.first = None
    /\ proc' = [proc EXCEPT !.first = Some([result |-> proc.result[1],
                                            calls |-> proc.calls]),
                            !.call = proc.result,
                            !.ret = None,
                            !.result = None]
    /\ Parsed

ProcInit ==
    /\ input = <<>>
    /\ tokens = LexerFrom
    /\ builder = TreeBuilderNew
    /\ stack = <<>>
    /\ ret = None
    /\ result = None
    /\ last = None
    /\ popped = <<>>
    /\ steps = 0
    /\ proc \in {Process(transforms, tree) : transforms \in Tables, tree \in ProcTrees}
    /\ line = NoLine
    /\ shown = None

ProcNext ==
    \/ process_text
    \/ process_inner
    \/ process_overflow
    \/ process_child
    \/ process_child_done
    \/ process_transform
    \/ process_rebuild
    \/ process_expanded
    \/ process_return
    \/ process_again

ProcSpec == ProcInit /\ [][ProcNext]_vars

-----------------------------------------------------------------------------
(* The inputs: every string of at most MaxLen characters of Sigma, and the *)
(* prefixes of five families of documents: one element with a fence of k   *)
(* hashes around a body; two nested elements, the inner one empty or       *)
(* holding a text, with any names in the open and the close tags; one      *)
(* element with attributes, each value closed by a quote or a line break;  *)
(* one element with a body of texts and elements; and a fenced element     *)
(* with a '/' in its close tag.                                            *)

Strings(S, n) == UNION {[1..k -> S] : k \in 0..n}

Prefixes(s) == {SubSeq(s, 1, n) : n \in 0..Len(s)}

Sigma == {"<", "/", ">", "#", "=", "\"", "a", " "}

BodyChars == {"x", "<", "/", "#", " "}

Hashes(k) == [i \in 1..k |-> "#"]

OpenFence(N, k) ==
    <<"<">> \o N \o (IF k = 0 THEN <<>> ELSE <<" ">> \o Hashes(k)) \o <<">">>

CloseFence(N, k) ==
    <<"<", "/">> \o Hashes(k) \o (IF k = 0 THEN <<>> ELSE <<" ">>) \o N \o <<">">>

FencedDoc(N, k, body) == OpenFence(N, k) \o body \o CloseFence(N, k)

Bodies == Strings(BodyChars, MaxBody)

Mixed == <<"M", "i", "x", "e", "d">>
Up == <<"U", "p">>
C == <<"C">>

NestedDoc(n1, n2, text, n3, n4) ==
    OpenFence(n1, 0) \o OpenFence(n2, 0) \o text \o CloseFence(n3, 0)
        \o CloseFence(n4, 0)

NestedTexts == {<<>>, <<"t">>}

A == <<"A">>

\* an attribute as it is written: name="value, then the quote or a line break
AttrSources ==
    [name : {<<"x">>, <<"y">>}, value : {<<>>, <<"1">>}, close : {"\"", "\n", "\r"}]

AttrLists == UNION {[1..k -> AttrSources] : k \in 0..MaxAttrs}

AttrSrc(a) == <<" ">> \o a.name \o <<"=", "\"">> \o a.value \o <<a.close>>

RECURSIVE AttrsSrc(_)
AttrsSrc(as) ==
    IF as = <<>> THEN <<>> ELSE AttrSrc(as[1]) \o AttrsSrc(Tail(as))

AttrDoc(as) == <<"<">> \o A \o AttrsSrc(as) \o <<">">> \o CloseFence(A, 0)

B == <<"B">>

\* a node of a body as it is written: a text, an empty element, an element
\* with a text
Items == {<<"x">>, OpenFence(B, 0) \o CloseFence(B, 0),
          OpenFence(B, 0) \o <<"y">> \o CloseFence(B, 0)}

ItemLists == UNION {[1..k -> Items] : k \in 0..MaxItems}

RECURSIVE Flatten(_)
Flatten(ss) == IF ss = <<>> THEN <<>> ELSE ss[1] \o Flatten(Tail(ss))

BodyDoc(items) == OpenFence(A, 0) \o Flatten(items) \o CloseFence(A, 0)

\* a fenced element with a '/' and a text where the name of its close tag
\* would be, and a close tag after them
SlashDoc(k) ==
    OpenFence(C, k) \o <<"x", "<", "/">> \o Hashes(k) \o <<"/", "y">>
        \o CloseFence(C, 0)

\* "<C #>x</## C>": a close tag with extra '#' more than the fence of k
OverFencedDoc(k, extra, sep) ==
    OpenFence(C, k) \o <<"x", "<", "/">> \o Hashes(k + extra) \o sep \o C \o <<">">>

OverFenced ==
    {OverFencedDoc(k, extra, sep) :
         k \in 0..MaxHash, extra \in 1..MaxExtra, sep \in {<<>>, <<" ">>}}

OverFencedInputs == UNION {Prefixes(d) : d \in OverFenced}

\* "<C x="value">": values of backslashes, quotes and letters
EscapeChars == {"\\", "\"", "a"}

EscapeDoc(value) ==
    <<"<", "C", " ", "x", "=", "\"">> \o value \o <<"\"", ">">>

EscapeInputs ==
    UNION {Prefixes(EscapeDoc(value)) : value \in Strings(EscapeChars, MaxValue)}

ShortInputs == Strings(Sigma, MaxLen)

SlashInputs == UNION {Prefixes(SlashDoc(k)) : k \in 0..MaxHash}

BodyInputs == UNION {Prefixes(BodyDoc(items)) : items \in ItemLists}

AttrInputs == UNION {Prefixes(AttrDoc(as)) : as \in AttrLists}

FencedInputs ==
    UNION {Prefixes(FencedDoc(C, k, body)) : k \in 0..MaxHash, body \in Bodies}

NestedInputs ==
    UNION {Prefixes(NestedDoc(n[1], n[2], text, n[3], n[4])) :
               n \in [1..4 -> {Mixed, Up}], text \in NestedTexts}

Inputs ==
    ShortInputs \cup FencedInputs \cup NestedInputs \cup AttrInputs \cup BodyInputs
        \cup SlashInputs \cup OverFencedInputs \cup EscapeInputs

-----------------------------------------------------------------------------
(* pos_to_line (src/src/syntax_error.rs) *)

\* the loop of pos_to_line, with i characters of source taken from chars
RECURSIVE line_loop(_, _, _, _)
line_loop(pos, source, i, n) ==
    IF i >= Len(source) \/ pos = 0 THEN n
    ELSE CASE source[i + 1] = "\n" -> line_loop(pos - 1, source, i + 1, n + 1)
           [] source[i + 1] = "\r" ->
                  IF i + 1 >= Len(source) THEN n
                  ELSE CASE source[i + 2] = "\n" ->
                                line_loop(pos - 1, source, i + 2, n + 1)
                         [] source[i + 2] = "\r" ->
                                line_loop(pos - 1, source, i + 2, n + 2)
                         [] OTHER -> line_loop(pos - 1, source, i + 2, n)
           [] OTHER -> line_loop(pos - 1, source, i + 1, n)

pos_to_line(pos, source) == line_loop(pos, source, 0, 1)

SourceChars == {"a", "\n", "\r"}

Sources == Strings(SourceChars, MaxSource)

\* pos_to_line(pos, source) is called and returns
pos_to_line_call ==
    /\ line.value = None
    /\ line' = [line EXCEPT !.value = Some(pos_to_line(line.pos, line.source))]
    /\ UNCHANGED <<input, tokens, builder, stack, ret, result, last, popped, steps, proc,
                   shown>>

LineInit ==
    /\ input = <<>>
    /\ tokens = LexerFrom
    /\ builder = TreeBuilderNew
    /\ stack = <<>>
    /\ ret = None
    /\ result = None
    /\ last = None
    /\ popped = <<>>
    /\ steps = 0
    /\ proc = NoProcess
    /\ line \in {[pos |-> pos, source |-> source, value |-> None] :
                     pos \in 0..(MaxSource + 1), source \in Sources}
    /\ shown = None

LineNext == pos_to_line_call

LineSpec == LineInit /\ [][LineNext]_vars

-----------------------------------------------------------------------------
(* parse(input): the state after Lexer::from(input) and TreeBuilder::new() *)

Init ==
    /\ input \in Inputs
    /\ tokens = LexerFrom
    /\ builder = TreeBuilderNew
    /\ stack = <<Frame("parse")>>
    /\ ret = None
    /\ result = None
    /\ last = None
    /\ popped = <<>>
    /\ steps = 0
    /\ proc = NoProcess
    /\ line = NoLine
    /\ shown = None

Next ==
    \/ parse_start
    \/ parse_take
    \/ document_open
    \/ document_skip
    \/ document_inner
    \/ document_tail
    \/ nodes_loop
    \/ inner_node_open
    \/ inner_node_nodes
    \/ inner_node_close
    \/ open_tag_start
    \/ open_tag_end
    \/ attrs_open
    \/ attrs_loop

\* a client that calls peek and pop in any order
lex_peek ==
    /\ tokens' = peek(tokens)
    /\ last' = Some(tokens'.buffer[1])
    /\ UNCHANGED <<input, proc, line, shown, builder, stack, ret, result, popped, steps>>

lex_pop ==
    /\ Len(popped) < MaxPops
    /\ tokens' = pop(tokens).tokens
    /\ last' = Some(pop(tokens).tok)
    /\ popped' = Append(popped, pop(tokens).tok)
    /\ UNCHANGED <<input, proc, line, shown, builder, stack, ret, result, steps>>

LexNext == lex_peek \/ lex_pop

LexSpec == Init /\ [][LexNext]_vars

Spec == Init /\ [][Next]_vars

-----------------------------------------------------------------------------
(* The tree written out and parsed again (impl fmt::Display for Tree)      *)

\* the attributes written with their values bare
RECURSIVE fmt_attrs_unquoted(_)
fmt_attrs_unquoted(attrs) ==
    IF attrs = <<>> THEN <<>>
    ELSE attrs[1][1] \o <<"=">> \o attrs[1][2] \o fmt_attrs_unquoted(Tail(attrs))

\* for attr in attrs: write!(f, "{}=\"{}\"", name, value)
RECURSIVE fmt_attrs(_)
fmt_attrs(attrs) ==
    IF attrs = <<>> THEN <<>>
    ELSE attrs[1][1] \o <<"=", "\"">> \o attrs[1][2] \o <<"\"">>
             \o fmt_attrs(Tail(attrs))

\* Display for Tree: the string fmt writes
RECURSIVE fmt(_)
fmt(tree) ==
    IF tree.tag = "Text" THEN tree.text
    ELSE <<"<">> \o tree.tag_name
             \o (IF Len(tree.attrs) > 0 THEN <<" ">> ELSE <<>>)
             \o fmt_attrs(tree.attrs)
             \o <<">">>
             \o Flatten([i \in 1..Len(tree.children) |-> fmt(tree.children[i])])
             \o <<"<", "/">> \o tree.tag_name \o <<">">>

\* the input holds no '#' and no backslash
Plain(s) == \A i \in 1..Len(s) : s[i] \notin {"#", "\\"}

\* attribute lists whose values all end with their quote
QuotedLists == {as \in AttrLists : \A i \in 1..Len(as) : as[i].close = "\""}

\* what may stand before the first '<' and after the top-level element
Junk == {<<>>, <<"a">>, <<" ">>, <<"<", "a", ">">>}

JunkInputs ==
    {pre \o d \o post :
         pre \in Junk, post \in Junk,
         d \in {AttrDoc(as) : as \in QuotedLists} \cup {BodyDoc(items) : items \in ItemLists}}

\* <A x="value">text</A> with the characters of the syntax in both
ValueChars == {"<", ">", "=", "/", "a", " "}

TextChars == {">", "=", "\"", "/", "a", " "}

SymbolDoc(value, text) ==
    <<"<", "A", " ", "x", "=", "\"">> \o value \o <<"\"", ">">> \o text
        \o CloseFence(A, 0)

SymbolInputs ==
    {SymbolDoc(value, text) :
         value \in Strings(ValueChars, MaxSymbols - 1), text \in Strings(TextChars, MaxSymbols)}

RoundInputs == {s \in Inputs : Plain(s)} \cup JunkInputs \cup SymbolInputs

\* parse(&tree.to_string()): the tree of a parse with no errors is
\* converted and written out, and parse is called on what was written
reparse ==
    /\ stack = <<>>
    /\ result # None
    /\ result[1].errors = <<>>
    /\ shown = None
    /\ TreeFrom(result[1].result).panic = None
    /\ shown' = Some([source |-> input, tree |-> TreeFrom(result[1].result).val])
    /\ input' = fmt(TreeFrom(result[1].result).val)
    /\ tokens' = LexerFrom
    /\ builder' = TreeBuilderNew
    /\ stack' = <<Frame("parse")>>
    /\ ret' = None
    /\ result' = None
    /\ last' = None
    /\ popped' = <<>>
    /\ steps' = 0
    /\ UNCHANGED <<proc, line>>

RoundInit ==
    /\ input \in RoundInputs
    /\ tokens = LexerFrom
    /\ builder = TreeBuilderNew
    /\ stack = <<Frame("parse")>>
    /\ ret = None
    /\ result = None
    /\ last = None
    /\ popped = <<>>
    /\ steps = 0
    /\ proc = NoProcess
    /\ line = NoLine
    /\ shown = None

RoundNext ==
    \/ parse_start
    \/ parse_take
    \/ document_open
    \/ document_skip
    \/ document_inner
    \/ document_tail
    \/ nodes_loop
    \/ inner_node_open
    \/ inner_node_nodes
    \/ inner_node_close
    \/ open_tag_start
    \/ open_tag_end
    \/ attrs_open
    \/ attrs_loop
    \/ reparse

RoundSpec == RoundInit /\ [][RoundNext]_vars

-----------------------------------------------------------------------------
(* Termination *)

\* the next read_next of the Lexer never moves back, and moves forward
\* unless it returns Eof
ReadAdvances ==
    tokens.buffer = None =>
        /\ read_next(tokens.pos, tokens.mode).pos >= tokens.pos
        /\ read_next(tokens.pos, tokens.mode).tok.kind # "Eof" =>
               read_next(tokens.pos, tokens.mode).pos > tokens.pos

\* the frame on top is about to run an iteration of one of the parser's loops
AtLoopHead ==
    /\ stack # <<>>
    /\ \/ Top.fn = "parse_document" /\ Top.pc \in {"skip", "tail"}
       \/ Top.fn = "parse_nodes"
       \/ Top.fn = "parse_attrs" /\ Top.pc = "loop"

\* since the last iteration of the loop on top started, a token was popped
LoopsConsume == AtLoopHead => Len(popped) > Top.mark

\* the blocks parse runs on an input of n characters are at most this many
StepBound(n) == StepsPerChar * n + StepsPerChar

\* the blocks of the parser: the places at which an action of Next is enabled
Blocks ==
    {<<"parse", "start">>, <<"parse", "take">>,
     <<"parse_document", "start">>, <<"parse_document", "skip">>,
     <<"parse_document", "inner">>, <<"parse_document", "tail">>,
     <<"parse_nodes", "start">>,
     <<"parse_inner_node", "start">>, <<"parse_inner_node", "nodes">>,
     <<"parse_inner_node", "close">>,
     <<"parse_open_tag", "start">>, <<"parse_open_tag", "end">>,
     <<"parse_attrs", "start">>, <<"parse_attrs", "loop">>}

\* C1: for every input parse terminates: every read that returns a token
\* other than Eof advances the position, every iteration of the loops of
\* parse_document, parse_nodes and parse_attrs pops a token or leaves the
\* loop, and parse, until it returns, is at a block it can run and has run
\* a number of blocks at most linear in the length of the input.
ParseTerminates ==
    /\ ReadAdvances
    /\ LoopsConsume
    /\ stack # <<>> => builder.panic = None /\ <<Top.fn, Top.pc>> \in Blocks
    /\ steps <= StepBound(Len(input))

ParseTerminatesWitness ==
    /\ result # None
    /\ Len(popped) >= 6
    /\ result[1].errors # <<>>

-----------------------------------------------------------------------------
(* The builder *)

RECURSIVE InProgressCount(_)
InProgressCount(wip) ==
    IF wip = <<>> THEN 0
    ELSE InProgressCount(Front(wip))
         + (IF wip[Len(wip)].state = "InProgress" THEN 1 ELSE 0)

\* the frame of the call stack has opened a node it has not completed yet
HoldsOpen(f) ==
    \/ f.fn \in {"parse_document", "parse_inner_node", "parse_open_tag"} /\ f.pc # "start"
    \/ f.fn = "parse_attrs" /\ f.pc = "loop"

OpenCalls == Cardinality({i \in 1..Len(stack) : HoldsOpen(stack[i])})

\* C2: parse returns normally with a Document: the InProgress frames of wip
\* are exactly the nodes the running functions have opened and not yet
\* completed, so take finds one Complete frame and no builder panic is reached.
BuilderSound ==
    /\ builder.panic = None
    /\ stack # <<>> => InProgressCount(builder.wip) = OpenCalls
    /\ At("parse", "take") =>
           /\ Len(builder.wip) = 1
           /\ builder.wip[1].state = "Complete"
    /\ stack = <<>> =>
           /\ result # None
           /\ result[1].result.kind = "Document"

BuilderSoundWitness ==
    /\ result # None
    /\ Len(result[1].errors) >= 2
    /\ result[1].result.children # <<>>

\* C3: the Document returned by parse spans the input, from 0 to its length.
DocumentSpansInput ==
    result # None =>
        /\ result[1].result.start = 0
        /\ result[1].result.end = Len(input)

DocumentSpansInputWitness ==
    /\ result # None
    /\ Len(input) >= 3
    /\ input[Len(input)] = " "
    /\ result[1].result.children # <<>>


-----------------------------------------------------------------------------
(* Fenced text *)

\* the lexer is about to read in Outside(n) with n > 0
ReadsFenced ==
    /\ tokens.buffer = None
    /\ tokens.mode.kind = "Outside"
    /\ tokens.mode.hash_count > 0

\* "</" and n '#' are at position p of the input, all of them
CloseFenceAt(p, n) ==
    /\ p + 2 + n <= Len(input)
    /\ input[p + 1] = "<"
    /\ input[p + 2] = "/"
    /\ \A i \in 1..n : input[p + 2 + i] = "#"

\* C4: in Outside(n) with n > 0 a Text token ends before a '<' only when
\* "</" followed by n '#' is what comes next; any other '<', also a "</"
\* that the end of the input cuts short, is consumed into the Text token.
FenceEndsAtCloseOnly ==
    ReadsFenced =>
        LET end == outside_loop(tokens.pos, tokens.mode.hash_count)
        IN  end > tokens.pos /\ end < Len(input) =>
                CloseFenceAt(end, tokens.mode.hash_count)

\* the body holds no '<' (k = 0), or no "</" followed by k '#' (k >= 1)
BodyAllowed(k, body) ==
    IF k = 0 THEN \A i \in 1..Len(body) : body[i] # "<"
    ELSE \A i \in 1..Len(body) :
             ~ /\ i + 1 + k <= Len(body)
               /\ body[i] = "<"
               /\ body[i + 1] = "/"
               /\ \A j \in 1..k : body[i + 1 + j] = "#"

\* C5: a document of one element <C #^k>body</#^k C>, body not empty and
\* holding no close fence, parses with no error and converts to the element
\* C with no attributes and the one child Text(body), the body unchanged.
FencedElementParses ==
    result # None =>
        \A k \in 0..MaxHash : \A body \in Bodies :
            (body # <<>> /\ BodyAllowed(k, body) /\ input = FencedDoc(C, k, body)) =>
                /\ result[1].errors = <<>>
                /\ TreeFrom(result[1].result) = Ok(Inner(C, <<>>, <<Text(body)>>))

FencedElementParsesWitness ==
    /\ result # None
    /\ MaxHash >= 2
    /\ input = FencedDoc(C, 2, <<"<", "/", "#">>)
    /\ result[1].errors = <<>>

\* C6: a Text token read in Outside(0) ends at the first '<', so it holds
\* none, and no Text token is empty: where the text would be empty, the
\* read goes on to the token that follows instead.
TextTokens ==
    /\ (tokens.buffer # None /\ tokens.buffer[1].kind = "Text") =>
           LET t == tokens.buffer[1] IN
           /\ t.end > t.start
           /\ t.text = SubSeq(input, t.start + 1, t.end)
           /\ tokens.mode.hash_count = 0 =>
                  /\ \A i \in 1..Len(t.text) : t.text[i] # "<"
                  /\ t.end = Len(input) \/ input[t.end + 1] = "<"
    /\ (/\ tokens.buffer = None
        /\ tokens.mode.kind = "Outside"
        /\ outside_loop(tokens.pos, tokens.mode.hash_count) = tokens.pos) =>
           /\ read_next(tokens.pos, tokens.mode).tok.kind \in {"LAngle", "LAngleSlash", "Eof"}
           /\ read_next(tokens.pos, tokens.mode).tok.start = tokens.pos

TextTokensWitness ==
    /\ tokens.buffer # None
    /\ tokens.buffer[1].kind = "Text"
    /\ tokens.mode.hash_count = 0
    /\ tokens.buffer[1].end < Len(input)
    /\ \E i \in 1..(Len(popped) - 1) :
           /\ popped[i].kind = "RAngle"
           /\ popped[i + 1].kind = "LAngle"
           /\ popped[i + 1].start = popped[i].end


-----------------------------------------------------------------------------
(* peek and pop *)

\* C7: Eof is absorbing: once a peek or a pop returned Eof, every later
\* peek and pop returns the same Eof token, at the same position.
EofAbsorbing ==
    [][(last # None /\ last[1].kind = "Eof") => last' = last]_vars

EofAbsorbingWitness ==
    /\ Len(popped) >= 3
    /\ popped[1].kind # "Eof"
    /\ popped[Len(popped) - 1].kind = "Eof"
    /\ popped[Len(popped)].kind = "Eof"
    /\ tokens.buffer = last
    /\ last[1].start = Len(input)

\* the first n tokens of the input, read one after the other with no peek
RECURSIVE read_all(_, _, _)
read_all(p, m, n) ==
    IF n = 0 THEN <<>>
    ELSE <<read_next(p, m).tok>>
             \o read_all(read_next(p, m).pos, read_next(p, m).mode, n - 1)

\* C8: a peek consumes nothing: peeks in a row return the same token and
\* leave the Lexer as it is, the pop after them returns that token, the
\* tokens popped are those read with no peek at all, and the buffer holds
\* one token at most.
PeekNonConsuming ==
    /\ [](/\ Len(tokens.buffer) <= 1
          /\ popped = read_all(0, Outside(0), Len(popped))
          /\ tokens.buffer # None =>
                 /\ last = tokens.buffer
                 /\ Append(popped, last[1]) = read_all(0, Outside(0), Len(popped) + 1))
    /\ [][tokens.buffer # None =>
              /\ last' = last
              /\ tokens'.buffer # None => tokens' = tokens]_vars

PeekNonConsumingWitness ==
    /\ Len(popped) >= 3
    /\ tokens.buffer # None
    /\ tokens.buffer = last
    /\ last[1].kind = "Text"

-----------------------------------------------------------------------------
(* Close tags *)

MismatchMessage == "closing tag must match opening"

IsMismatch(e) == e.message = MismatchMessage

Mismatches(errors) == SelectSeq(errors, IsMismatch)

MixedUp == NestedDoc(Mixed, Up, <<>>, Mixed, Up)

MixedUpTree == Ok(Inner(Mixed, <<>>, <<Inner(Up, <<>>, <<>>)>>))

\* C9, as the specification states it: "<Mixed><Up></Mixed></Up>" gives one
\* "closing tag must match opening" error and the tree Mixed with the one
\* child Up, which has no children.
MixedUpOneError ==
    (result # None /\ input = MixedUp) =>
        /\ Len(Mismatches(result[1].errors)) = 1
        /\ TreeFrom(result[1].result) = MixedUpTree

\* C9: "<Mixed><Up></Mixed></Up>" gives two "closing tag must match opening"
\* errors and no other: one for Up, closed by "</Mixed>", and one for Mixed,
\* closed by "</Up>"; the tree is Mixed with the one child Up, which has no
\* children.
MixedUpTwoErrors ==
    (result # None /\ input = MixedUp) =>
        /\ result[1].errors =
               <<SyntaxError(MismatchMessage, <<Up, Mixed>>, 13, 18),
                 SyntaxError(MismatchMessage, <<Mixed, Up>>, 21, 23)>>
        /\ TreeFrom(result[1].result) = MixedUpTree

MixedUpTwoErrorsWitness ==
    /\ result # None
    /\ input = MixedUp
    /\ Len(result[1].errors) = 2

\* the tree t and every tree below it
RECURSIVE Nodes(_)
Nodes(t) ==
    {t} \cup UNION {Nodes(t.children[i]) : i \in 1..Len(t.children)}

\* the kinds of the tree t, nested as its nodes are
RECURSIVE Shape(_)
Shape(t) ==
    [kind |-> t.kind,
     children |-> [i \in 1..Len(t.children) |-> Shape(t.children[i])]]

Node(kind, children) == [kind |-> kind, children |-> children]

NamedTag(kind, more) == Node(kind, <<Node("TagName", <<>>)>> \o more)

\* two nested elements, the inner one holding the nodes of body
NestedShape(body) ==
    Node("Document",
         <<Node("InnerNode",
                <<NamedTag("OpenTag", <<Node("Attrs", <<>>)>>),
                  Node("InnerNode",
                       <<NamedTag("OpenTag", <<Node("Attrs", <<>>)>>)>>
                           \o body \o <<NamedTag("CloseTag", <<>>)>>),
                  NamedTag("CloseTag", <<>>)>>)>>)

\* the TagName of the first child of t of kind tag_kind, if there is one
TagNameIn(t, tag_kind) ==
    LET IsTag(u) == u.kind = tag_kind
        IsName(u) == u.kind = "TagName"
        tags == SelectSeq(t.children, IsTag)
    IN  IF tags = <<>> THEN None
        ELSE IF SelectSeq(tags[1].children, IsName) = <<>> THEN None
        ELSE Some(SelectSeq(tags[1].children, IsName)[1])

\* an InnerNode whose open and close tags both have a name, not the same
Mismatched(t) ==
    /\ t.kind = "InnerNode"
    /\ TagNameIn(t, "OpenTag") # None
    /\ TagNameIn(t, "CloseTag") # None
    /\ TagNameIn(t, "OpenTag")[1].text # TagNameIn(t, "CloseTag")[1].text

MismatchOf(t) ==
    SyntaxError(MismatchMessage,
                <<TagNameIn(t, "OpenTag")[1].text, TagNameIn(t, "CloseTag")[1].text>>,
                TagNameIn(t, "CloseTag")[1].start, TagNameIn(t, "CloseTag")[1].end)

\* C10: the names of close tags are a diagnostic only: a "</" closes the
\* innermost open InnerNode whatever its name, so two nested elements have
\* the same kinds and nesting whatever names their tags hold; and there is
\* one "closing tag must match opening" error for each InnerNode whose open
\* and close tags both have a name and the names differ, at the span of the
\* name in the close tag.
CloseNamesDiagnosticOnly ==
    result # None =>
        /\ LET ms == Mismatches(result[1].errors)
               bad == {t \in Nodes(result[1].result) : Mismatched(t)}
           IN  /\ {ms[i] : i \in 1..Len(ms)} = {MismatchOf(t) : t \in bad}
               /\ Len(ms) = Cardinality(bad)
        /\ \A n \in [1..4 -> {Mixed, Up}] : \A text \in NestedTexts :
               input = NestedDoc(n[1], n[2], text, n[3], n[4]) =>
                   Shape(result[1].result) =
                       NestedShape(IF text = <<>> THEN <<>>
                                   ELSE <<Node("TextNode", <<>>)>>)

CloseNamesDiagnosticOnlyWitness ==
    /\ result # None
    /\ input = NestedDoc(Mixed, Up, <<"t">>, Up, Up)
    /\ Len(Mismatches(result[1].errors)) = 1
    /\ result[1].errors[1].start = 19


-----------------------------------------------------------------------------
(* Attributes *)

Terminated(as) == \A i \in 1..Len(as) : as[i].close = "\""

\* the (name, value) pairs of the attributes as they are written
AttrPairs(as) == [i \in 1..Len(as) |-> <<as[i].name, as[i].value>>]

\* C11: an element whose attributes are all terminated parses with no
\* error, and its attrs are the (name, value) pairs of the open tag in the
\* order of the source, a name that occurs twice kept twice.
AttrsInSourceOrder ==
    result # None =>
        \A as \in AttrLists :
            (Terminated(as) /\ input = AttrDoc(as)) =>
                /\ result[1].errors = <<>>
                /\ TreeFrom(result[1].result) = Ok(Inner(A, AttrPairs(as), <<>>))

AttrsInSourceOrderWitness ==
    /\ result # None
    /\ MaxAttrs >= 2
    /\ input = AttrDoc(<<[name |-> <<"x">>, value |-> <<"1">>, close |-> "\""],
                         [name |-> <<"x">>, value |-> <<>>, close |-> "\""]>>)
    /\ Len(TreeFrom(result[1].result).val.attrs) = 2

IsUnterminated(t) == t.kind = "UnterminatedAttrVal"

IsUnterminatedError(e) == e.message = "unterminated attribute value"

\* the Attrs node of the one element of a document
AttrsOf(doc) == doc.children[1].children[1].children[2]

\* C12: for each value that a line break ends before its closing quote, the
\* lexer returns an UnterminatedAttrVal token whose text is the characters
\* between the opening quote and the line break, the parser adds an
\* "unterminated attribute value" error at that token, and the Attr still
\* has an AttrVal child with that text.
UnterminatedValueKept ==
    result # None =>
        \A as \in AttrLists :
            input = AttrDoc(as) =>
                LET broken == {i \in 1..Len(as) : as[i].close # "\""}
                    toks == SelectSeq(popped, IsUnterminated)
                    errs == SelectSeq(result[1].errors, IsUnterminatedError)
                    attrs == AttrsOf(result[1].result).children
                IN  /\ Len(toks) = Cardinality(broken)
                    /\ Len(errs) = Cardinality(broken)
                    /\ Len(attrs) = Len(as)
                    /\ \A i \in 1..Len(as) :
                           /\ Len(attrs[i].children) = 2
                           /\ attrs[i].children[1].kind = "AttrName"
                           /\ attrs[i].children[1].text = as[i].name
                           /\ attrs[i].children[2].kind = "AttrVal"
                           /\ attrs[i].children[2].text = as[i].value
                           /\ i \in broken =>
                                  \E k \in 1..Len(toks) :
                                      /\ toks[k].text = as[i].value
                                      /\ toks[k].start = attrs[i].children[2].start
                                      /\ toks[k].end = attrs[i].children[2].end
                                      /\ input[toks[k].start] = "\""
                                      /\ input[toks[k].end + 1] = as[i].close
                                      /\ errs[k].start = toks[k].start
                                      /\ errs[k].end = toks[k].end

UnterminatedValueKeptWitness ==
    /\ result # None
    /\ MaxAttrs >= 2
    /\ input = AttrDoc(<<[name |-> <<"x">>, value |-> <<"1">>, close |-> "\n"],
                         [name |-> <<"y">>, value |-> <<>>, close |-> "\r"]>>)
    /\ Len(SelectSeq(result[1].errors, IsUnterminatedError)) = 2


-----------------------------------------------------------------------------
(* Transforms *)

\* the elements of a tree, the tree included
RECURSIVE Elements(_)
Elements(tree) ==
    IF tree.tag = "Text" THEN {}
    ELSE {tree} \cup UNION {Elements(tree.children[i]) : i \in 1..Len(tree.children)}

Registered(tree) == {e \in Elements(tree) : e.tag_name \in DOMAIN proc.transforms}

Expanded(tree) == Expand(proc.transforms, tree, MaxExpand)

\* C13: the tree process returns has no element with a registered tag name:
\* each is replaced by what its transform returns, and that tree is
\* processed again, down to elements with no transform.
NoRegisteredLeft ==
    proc.result # None =>
        /\ Registered(proc.result[1]) = {}
        /\ proc.result = Expanded(proc.tree)

NoRegisteredLeftWitness ==
    /\ proc.result # None
    /\ DOMAIN proc.transforms = {T, U}
    /\ proc.transforms[T] = [kind |-> "Wrap", to |-> U]
    /\ proc.transforms[U].kind = "Rename"
    /\ proc.tree.tag_name = T
    /\ Len(proc.calls) >= 3

\* C14: process returns a Text as it is, rebuilds an element with no
\* transform with its tag name, its attrs and its processed children in
\* their order, and so returns a tree with no registered tag name as it is,
\* with no transform invoked.
ProcessFrame ==
    proc.result # None =>
        /\ proc.tree.tag = "Text" => proc.result[1] = proc.tree
        /\ (proc.tree.tag = "Inner" /\ get(proc.transforms, proc.tree.tag_name) = None) =>
               /\ proc.result[1].tag = "Inner"
               /\ proc.result[1].tag_name = proc.tree.tag_name
               /\ proc.result[1].attrs = proc.tree.attrs
               /\ Len(proc.result[1].children) = Len(proc.tree.children)
               /\ \A i \in 1..Len(proc.tree.children) :
                      Some(proc.result[1].children[i]) = Expanded(proc.tree.children[i])
        /\ Registered(proc.tree) = {} =>
               /\ proc.result[1] = proc.tree
               /\ proc.calls = <<>>

ProcessFrameWitness ==
    /\ proc.result # None
    /\ DOMAIN proc.transforms = {U}
    /\ Registered(proc.tree) = {}
    /\ Cardinality(Elements(proc.tree)) = 2
    /\ proc.tree.children[1].attrs # <<>>
    /\ Len(proc.tree.children[1].children) = 2

\* the transforms process(tree) invokes, in order, each with its arguments
RECURSIVE Invocations(_, _)
Invocations(tree, fuel) ==
    IF tree.tag = "Text" THEN <<>>
    ELSE LET RECURSIVE below(_)
             below(i) ==
                 IF i = 0 THEN <<>>
                 ELSE below(i - 1) \o Invocations(tree.children[i], fuel)
             children == [i \in 1..Len(tree.children) |-> Expanded(tree.children[i])[1]]
         IN  IF get(proc.transforms, tree.tag_name) = None \/ fuel = 0
             THEN below(Len(tree.children))
             ELSE below(Len(tree.children))
                      \o <<[tag_name |-> tree.tag_name, attrs |-> tree.attrs,
                            children |-> children]>>
                      \o Invocations(Apply(get(proc.transforms, tree.tag_name)[1],
                                           tree.attrs, children), fuel - 1)

\* C15: process is post-order: the transform of an element is invoked after
\* all its children were processed, left to right, and with the attrs of
\* the element and its processed children in their order.
PostOrder ==
    /\ [](proc.result # None => proc.calls = Invocations(proc.tree, MaxExpand))
    /\ [][proc'.calls # proc.calls =>
              /\ ProcTop.todo = <<>>
              /\ proc'.calls = Append(proc.calls,
                                      [tag_name |-> ProcTop.tag_name,
                                       attrs |-> ProcTop.attrs,
                                       children |-> ProcTop.done])
              /\ Registered(Inner(W, <<>>, ProcTop.done)) = {}]_vars

PostOrderWitness ==
    /\ proc.result # None
    /\ Len(proc.calls) = 3
    /\ proc.tree.attrs # <<>>
    /\ Len(proc.tree.children) = 2
    /\ proc.calls[1].tag_name = U
    /\ proc.calls[2].tag_name = T
    /\ proc.calls[3].tag_name = U
    /\ proc.calls[3].attrs = proc.tree.attrs

\* the transform of tag_name returns an element of the same tag name
SelfEmitting(tag_name) ==
    /\ get(proc.transforms, tag_name) # None
    /\ proc.transforms[tag_name] = [kind |-> "Rename", to |-> tag_name]

\* C16: process has no guard: where the transform of a tag name returns an
\* element of that tag name on every call, process never returns on a tree
\* that holds an element of that tag name.
SelfEmittingNeverReturns ==
    (\E e \in Elements(proc.tree) : SelfEmitting(e.tag_name)) => proc.result = None

SelfEmittingNeverReturnsWitness ==
    /\ proc.overflow
    /\ Len(proc.stack) = MaxDepth
    /\ SelfEmitting(T)
    /\ get(proc.transforms, U) = None
    /\ proc.tree.tag_name = U
    /\ Len(proc.tree.children) = 2
    /\ proc.tree.children[2].tag = "Inner"
    /\ proc.tree.children[2].tag_name = T
    /\ Len(proc.calls) >= MaxDepth - 2


-----------------------------------------------------------------------------
(* Conversion of every parse *)

-----------------------------------------------------------------------------
(* The errors of a parse *)

\* C18: the errors parse returns are in the order of the input: the span of
\* an error starts no earlier than the span of the error before it.
ErrorsLeftToRight ==
    result # None =>
        \A i \in 1..(Len(result[1].errors) - 1) :
            result[1].errors[i].start <= result[1].errors[i + 1].start


-----------------------------------------------------------------------------
(* The shape of the concrete syntax tree *)

IsMissingClose(e) == e.message = "expected closing tag, but found EOF"

\* the children of an InnerNode after the first and before the last
BodyKinds(t) == {t.children[i].kind : i \in 2..(Len(t.children) - 1)}

HasCloseTag(t) == t.children[Len(t.children)].kind = "CloseTag"

\* C19: the children of an InnerNode are an OpenTag, then InnerNodes and
\* TextNodes, then at most one CloseTag, which starts at a "</"; the
\* CloseTag is missing exactly where the body was ended by Eof: the node
\* then ends where the input ends and the parse has one "expected closing
\* tag, but found EOF" error for it.
InnerNodeShape ==
    result # None =>
        LET inner == {t \in Nodes(result[1].result) : t.kind = "InnerNode"}
            unclosed == {t \in inner : ~HasCloseTag(t)}
        IN  /\ \A t \in inner :
                   /\ t.children # <<>>
                   /\ t.children[1].kind = "OpenTag"
                   /\ BodyKinds(t) \subseteq {"InnerNode", "TextNode"}
                   /\ t.children[Len(t.children)].kind
                          \in {"OpenTag", "InnerNode", "TextNode", "CloseTag"}
                   /\ t.children[Len(t.children)].kind = "OpenTag" => Len(t.children) = 1
                   /\ HasCloseTag(t) =>
                          LET close == t.children[Len(t.children)]
                          IN  /\ close.start + 2 <= Len(input)
                              /\ input[close.start + 1] = "<"
                              /\ input[close.start + 2] = "/"
                   /\ ~HasCloseTag(t) => t.end = Len(input)
            /\ Len(SelectSeq(result[1].errors, IsMissingClose)) = Cardinality(unclosed)

InnerNodeShapeWitness ==
    /\ result # None
    /\ Len(SelectSeq(result[1].errors, IsMissingClose)) = 2
    /\ \E t \in Nodes(result[1].result) :
           /\ t.kind = "InnerNode"
           /\ Len(t.children) = 2
           /\ t.children[2].kind = "InnerNode"
           /\ Len(t.children[2].children) = 2
           /\ t.children[2].children[2].kind = "TextNode"

\* C20: every node of the tree starts no later than it ends, and its span
\* holds the span of each of its children.
SpansNested ==
    result # None =>
        \A t \in Nodes(result[1].result) :
            /\ t.start <= t.end
            /\ \A i \in 1..Len(t.children) :
                   /\ t.start <= t.children[i].start
                   /\ t.children[i].end <= t.end


SpansNestedWitness ==
    /\ result # None
    /\ result[1].errors # <<>>
    /\ \E t \in Nodes(result[1].result) :
           /\ t.kind = "Attr"
           /\ Len(t.children) = 1
           /\ t.end > t.children[1].end
    /\ \E t \in Nodes(result[1].result) :
           /\ t.kind = "Attr"
           /\ Len(t.children) = 2
           /\ t.children[2].end > t.children[2].start

-----------------------------------------------------------------------------
(* Lines *)

\* the line breaks of source that end at or before offset pos: a '\r' with
\* the '\n' after it is one break, every other '\r' or '\n' is one break
BreaksBefore(pos, source) ==
    {i \in 1..Len(source) :
         \/ /\ source[i] = "\r"
            /\ IF i < Len(source) /\ source[i + 1] = "\n" THEN i + 1 <= pos ELSE i <= pos
         \/ /\ source[i] = "\n"
            /\ ~(i > 1 /\ source[i - 1] = "\r")
            /\ i <= pos}

\* C21: pos_to_line(pos, source) is the 1-based number of the line that
\* holds offset pos, with each '\n', each "\r\n" and each other '\r'
\* counted as one line break; past the end it is the last line.
LineOfOffset ==
    line.value # None =>
        line.value[1] = 1 + Cardinality(BreaksBefore(line.pos, line.source))


-----------------------------------------------------------------------------
(* The body of an element *)

\* the (name, value) pairs of the Attrs node of an OpenTag
PairsOf(attrs) ==
    [i \in 1..Len(attrs.children) |->
         <<attrs.children[i].children[1].text, attrs.children[i].children[2].text>>]

\* the element of an InnerNode: the name and the attributes of its first
\* child and the nodes between its first and its last child, in order
RECURSIVE ElementOf(_)
ElementOf(t) ==
    IF t.kind = "TextNode" THEN Text(SubSeq(input, t.start + 1, t.end))
    ELSE Inner(t.children[1].children[1].text, PairsOf(t.children[1].children[2]),
               [i \in 1..(Len(t.children) - 2) |-> ElementOf(t.children[i + 1])])

\* a tree with no attributes as it is written
RECURSIVE Written(_)
Written(tree) ==
    IF tree.tag = "Text" THEN tree.text
    ELSE OpenFence(tree.tag_name, 0)
             \o Flatten([i \in 1..Len(tree.children) |-> Written(tree.children[i])])
             \o CloseFence(tree.tag_name, 0)

\* C22: the conversion of an InnerNode takes the OpenTag from its first
\* child, leaves out its last child, the CloseTag, and converts the children
\* between them in the order of the source, an InnerNode to an element and a
\* TextNode to a Text of the same content: no node of a body is moved or lost.
BodyInOrder ==
    (result # None /\ result[1].errors = <<>>) =>
        /\ TreeFrom(result[1].result) = Ok(ElementOf(result[1].result.children[1]))
        /\ \A items \in ItemLists :
               input = BodyDoc(items) =>
                   Written(TreeFrom(result[1].result).val) = input

BodyInOrderWitness ==
    /\ result # None
    /\ result[1].errors = <<>>
    /\ MaxItems >= 3
    /\ input = BodyDoc(<<<<"x">>, OpenFence(B, 0) \o <<"y">> \o CloseFence(B, 0),
                         OpenFence(B, 0) \o CloseFence(B, 0)>>)
    /\ Len(TreeFrom(result[1].result).val.children) = 3


-----------------------------------------------------------------------------
(* The modes of the lexer *)

\* the read that the next peek or pop makes
NextRead == read_next(tokens.pos, tokens.mode)

\* the next read is in Inside mode and meets a character that starts no token
FallsBack ==
    /\ tokens.mode.kind = "Inside"
    /\ peek_char(skip_whitespace(tokens.pos)) # None
    /\ peek_char(skip_whitespace(tokens.pos))[1] \notin {"<", ">", "#", "=", "\""}
    /\ ~is_name_start(peek_char(skip_whitespace(tokens.pos))[1])

\* the fence depth of the mode in which the next token is read
ReadDepth == IF FallsBack THEN 0 ELSE tokens.mode.hash_count

IsRAngle(t) == t.kind = "RAngle"

\* the hash count of the last RAngle popped, 0 where there is none
LastRAngleHashes ==
    LET rs == SelectSeq(popped, IsRAngle)
    IN  IF rs = <<>> THEN 0 ELSE Len(rs[Len(rs)].text) - 1

\* C23, as the specification states it: whenever the lexer reads in an
\* Outside mode, the depth of the mode is the hash count of the RAngle
\* returned last.
OutsideDepthIsLastRAngle ==
    (tokens.buffer = None /\ (tokens.mode.kind = "Outside" \/ FallsBack)) =>
        ReadDepth = LastRAngleHashes

\* C23: a RAngle of k '#' and '>' leaves the mode Outside(k), a plain '>'
\* Outside(0); LAngleSlash leaves Inside(0); LAngle leaves the Inside mode
\* it was read in; a Text read in Outside(n) leaves Inside(n).  Between two
\* reads the mode is Outside only after a RAngle, with the hash count of
\* that RAngle as its depth, or before the first read, with depth 0; a read
\* that falls back from Inside mode reads in Outside(0) whatever that count.
ModeTransitions ==
    /\ tokens.buffer = None =>
           /\ NextRead.tok.kind = "RAngle" =>
                  /\ NextRead.mode = Outside(Len(NextRead.tok.text) - 1)
                  /\ \A i \in 1..(Len(NextRead.tok.text) - 1) : NextRead.tok.text[i] = "#"
                  /\ NextRead.tok.text[Len(NextRead.tok.text)] = ">"
           /\ NextRead.tok.kind = "LAngleSlash" => NextRead.mode = Inside(0)
           /\ NextRead.tok.kind \in {"LAngle", "Text"} => NextRead.mode = Inside(ReadDepth)
    /\ tokens.mode.kind = "Outside" =>
           IF last = None THEN tokens.mode = Outside(0)
           ELSE /\ last[1].kind = "RAngle"
                /\ tokens.mode.hash_count = Len(last[1].text) - 1

ModeTransitionsWitness ==
    /\ Len(popped) = 5
    /\ popped[3].kind = "RAngle"
    /\ Len(popped[3].text) = 3
    /\ popped[4].kind = "Text"
    /\ popped[5].kind = "LAngleSlash"
    /\ tokens.buffer # None
    /\ tokens.buffer[1].kind = "Text"
    /\ tokens.mode = Inside(0)
    /\ input[tokens.buffer[1].start] = "/"


\* the position of the most recent InProgress frame of a builder
InProgressAt(b) == {i \in 1..Len(b.wip) : b.wip[i].state = "InProgress"}

LastInProgress(b) ==
    CHOOSE k \in InProgressAt(b) : \A i \in InProgressAt(b) : i <= k

\* C24: complete(end) turns the most recent InProgress frame into a Complete
\* node with the frame's kind and start, the given end, and as children the
\* Complete frames pushed after it, in push order; the frames below it and
\* the errors are unchanged, and the stack ends at that frame's position.
CompleteFrameEffect ==
    \A end \in {tokens.pos, Len(input)} :
        InProgressAt(builder) # {} =>
            LET k == LastInProgress(builder)
                after == complete(builder, end)
                node == after.wip[k].tree
            IN  /\ Len(after.wip) = k
                /\ SubSeq(after.wip, 1, k - 1) = SubSeq(builder.wip, 1, k - 1)
                /\ after.wip[k].state = "Complete"
                /\ node.kind = builder.wip[k].tree.kind
                /\ node.start = builder.wip[k].tree.start
                /\ node.end = end
                /\ node.children =
                       [i \in 1..(Len(builder.wip) - k) |-> builder.wip[k + i].tree]
                /\ after.errors = builder.errors
                /\ after.panic = builder.panic

CompleteFrameEffectWitness ==
    /\ InProgressAt(builder) # {}
    /\ LastInProgress(builder) >= 2
    /\ Len(builder.wip) >= LastInProgress(builder) + 2
    /\ builder.wip[Len(builder.wip)].tree.kind # builder.wip[Len(builder.wip) - 1].tree.kind


\* the '<' an open tag starts with and the token after it
LAngleToken == pop(tokens).tok

AfterLAngle == peek(pop(tokens).tokens).buffer[1]

NameFollowers == {"Equals", "AttrVal", "RAngle"}

MissingNameShort == "expected tag name"

MissingNameLong == "expected tag name, followed by attributes and '>'"

MissingName(tok) ==
    SyntaxError(IF tok.kind \in NameFollowers THEN MissingNameShort ELSE MissingNameLong,
                <<>>, tok.start, tok.end)

ClosedEarly ==
    /\ builder'.wip = Append(builder.wip,
           Complete(Tree("OpenTag", <<>>, LAngleToken.start, AfterLAngle.start, <<>>)))
    /\ stack' = Front(stack)
    /\ ret' = None

\* C25, as the specification states it: whenever the token after '<' is not
\* a Name, parse_open_tag adds one missing-name error, completes the OpenTag
\* with no children where that token starts and returns, having consumed the
\* '<' only.
NamelessOpenTagClosesEarly ==
    [][(At("parse_open_tag", "start") /\ AfterLAngle.kind # "Name") =>
          /\ builder'.errors = Append(builder.errors, MissingName(AfterLAngle))
          /\ popped' = Append(popped, LAngleToken)
          /\ ClosedEarly]_vars

\* C25: when the token after '<' is not a Name, parse_open_tag adds one
\* missing-name error and consumes the '<' only.  If the token is Equals,
\* AttrVal or RAngle the message is "expected tag name" and the open tag goes
\* on with parse_attrs, so that the OpenTag gets an Attrs child; on any other
\* token the message is the longer one and the OpenTag is completed with no
\* children where that token starts.  In the finished tree an OpenTag
\* without a TagName has no children or the one child Attrs.
OpenTagWithoutName ==
    /\ [][(At("parse_open_tag", "start") /\ AfterLAngle.kind # "Name") =>
              /\ builder'.errors = Append(builder.errors, MissingName(AfterLAngle))
              /\ popped' = Append(popped, LAngleToken)
              /\ IF AfterLAngle.kind \in NameFollowers
                 THEN /\ builder'.wip = Append(builder.wip,
                             InProgress("OpenTag", <<>>, LAngleToken.start))
                      /\ Len(stack') = Len(stack) + 1
                      /\ stack'[Len(stack')] = Frame("parse_attrs")
                 ELSE ClosedEarly]_vars
    /\ [](result # None =>
              \A t \in Nodes(result[1].result) :
                  (t.kind = "OpenTag" /\ t.children # <<>>) =>
                      \/ Shape(t).children = <<Node("Attrs", <<>>)>>
                      \/ t.children[1].kind = "TagName")

\* "<<>": the first '<' is followed by '<', the second by '>'
OpenTagWithoutNameWitness ==
    /\ result # None
    /\ \E t \in Nodes(result[1].result) : t.kind = "OpenTag" /\ t.children = <<>>
    /\ \E t \in Nodes(result[1].result) :
           /\ t.kind = "OpenTag"
           /\ Shape(t).children = <<Node("Attrs", <<>>)>>
    /\ \E i, j \in 1..Len(result[1].errors) :
           /\ result[1].errors[i].message = MissingNameLong
           /\ result[1].errors[j].message = MissingNameShort


\* the token the next peek returns
NextToken == peek(tokens).buffer[1]

UnexpectedEof(tok) == SyntaxError("unexpected EOF", <<>>, tok.start, tok.end)

HasLAngle == \E i \in 1..Len(popped) : popped[i].kind = "LAngle"

\* C26: the Document of a finished parse has the one child InnerNode when
\* the parser met a LAngle, and otherwise no children, with the one error
\* "unexpected EOF".  The loop that skips to the first '<' and the loop that
\* skips to Eof after the top-level InnerNode pop tokens and leave the
\* builder as it is, up to the "unexpected EOF" of the first loop and the
\* completion of the Document.
DocumentChildren ==
    /\ [](result # None =>
              IF HasLAngle
              THEN Shape(result[1].result).children = <<Node("InnerNode",
                       Shape(result[1].result.children[1]).children)>>
              ELSE /\ result[1].result.children = <<>>
                   /\ result[1].errors =
                          <<SyntaxError("unexpected EOF", <<>>, Len(input), Len(input))>>)
    /\ [][At("parse_document", "skip") =>
              CASE NextToken.kind = "LAngle" -> UNCHANGED <<builder, popped>>
                [] NextToken.kind = "Eof" ->
                       /\ popped' = popped
                       /\ ~HasLAngle
                       /\ builder' = complete(add_error(builder, UnexpectedEof(NextToken)),
                                              NextToken.start)
                [] OTHER -> /\ builder' = builder
                            /\ popped' = Append(popped, NextToken)]_vars
    /\ [][At("parse_document", "tail") =>
              IF NextToken.kind = "Eof"
              THEN /\ popped' = popped
                   /\ builder'.errors = builder.errors
                   /\ Len(builder.wip) = 2
                   /\ builder'.wip = <<Complete(Tree("Document", <<>>,
                          builder.wip[1].tree.start, NextToken.start,
                          <<builder.wip[2].tree>>))>>
              ELSE /\ builder' = builder
                   /\ popped' = Append(popped, NextToken)]_vars

DocumentChildrenWitness ==
    /\ result # None
    /\ HasLAngle
    /\ popped[1].kind # "LAngle"
    /\ Len(result[1].result.children) = 1
    /\ popped[Len(popped)].start >= result[1].result.children[1].end
    /\ popped[Len(popped)].kind # "RAngle"


Kinds(toks) == [i \in 1..Len(toks) |-> toks[i].kind]

\* where the extra hashes of OverFencedDoc(k, extra, sep) start
ExtraAt(k) == Len(OpenFence(C, k)) + 3 + k

\* C27: a close tag with more '#' than the open fence closes the InnerNode:
\* the fence's hashes belong to the LAngleSlash, the extra ones are one
\* OrphanHashes token, the one error of the parse is "orphaned hashes" at
\* that token, and the Name and the '>' after it complete the CloseTag.
OrphanHashesClose ==
    \A k \in 0..MaxHash, extra \in 1..MaxExtra, sep \in {<<>>, <<" ">>} :
        (result # None /\ input = OverFencedDoc(k, extra, sep)) =>
            /\ Kinds(popped) = <<"LAngle", "Name", "RAngle", "Text", "LAngleSlash",
                                 "OrphanHashes", "Name", "RAngle">>
            /\ popped[5].end = ExtraAt(k)
            /\ popped[6].text = Hashes(extra)
            /\ result[1].errors =
                   <<SyntaxError("orphaned hashes", <<>>, ExtraAt(k), ExtraAt(k) + extra)>>
            /\ Shape(result[1].result) =
                   Node("Document", <<Node("InnerNode",
                       <<NamedTag("OpenTag", <<Node("Attrs", <<>>)>>),
                         Node("TextNode", <<>>),
                         NamedTag("CloseTag", <<>>)>>)>>)
            /\ result[1].result.children[1].end = Len(input)
            /\ result[1].result.children[1].children[3].end = Len(input)
            /\ TreeFrom(result[1].result) = Ok(Inner(C, <<>>, <<Text(<<"x">>)>>))

OrphanHashesCloseWitness ==
    /\ result # None
    /\ input = OverFencedDoc(1, 1, <<" ">>)
    /\ Len(result[1].errors) = 1


\* where the character that makes an Inside-mode read fall back stands
FallbackAt == skip_whitespace(tokens.pos)

\* C28: an Inside-mode read that meets a character starting no token reads
\* again in Outside(0) from that character: the token it returns is the
\* Text that starts at that character.
FallbackKeepsCharacter ==
    (tokens.buffer = None /\ FallsBack) =>
        /\ NextRead = read_next(FallbackAt, Outside(0))
        /\ NextRead.tok.kind = "Text"
        /\ NextRead.tok.start = FallbackAt


\* the number of backslashes that end at index i of the input, from lo on
RECURSIVE BackslashRun(_, _)
BackslashRun(i, lo) ==
    IF i < lo \/ input[i] # "\\" THEN 0 ELSE 1 + BackslashRun(i - 1, lo)

\* index i holds a quote that no backslash escapes, in a value begun at lo
EndsValue(i, lo) == input[i] = "\"" /\ BackslashRun(i - 1, lo) % 2 = 0

\* the indices at which a value begun at lo can stop
ValueStops(lo) ==
    {i \in lo..Len(input) : EndsValue(i, lo) \/ input[i] \in {"\n", "\r"}}

FirstStop(lo) == CHOOSE i \in ValueStops(lo) : \A j \in ValueStops(lo) : i <= j

\* C29: an attribute value ends at its first quote that is preceded by an
\* even number of backslashes (each backslash escapes the one character
\* after it), and the text of the AttrVal token is the input between the
\* quotes, backslashes included; a value with no such quote before a line
\* break or the end of the input is an UnterminatedAttrVal.
AttrValEscapes ==
    (tokens.buffer = None /\ tokens.mode.kind = "Inside"
         /\ peek_char(FallbackAt) = Some("\"")) =>
        LET lo == FallbackAt + 2
        IN  IF ValueStops(lo) # {} /\ input[FirstStop(lo)] = "\""
            THEN /\ NextRead.tok = [kind |-> "AttrVal",
                                    text |-> SubSeq(input, lo, FirstStop(lo) - 1),
                                    start |-> lo - 1, end |-> FirstStop(lo) - 1]
                 /\ NextRead.pos = FirstStop(lo)
            ELSE /\ NextRead.tok.kind = "UnterminatedAttrVal"
                 /\ NextRead.tok.start = lo - 1

\* x="\"\\": an escaped quote inside the value, an escaped backslash at its end
AttrValEscapesWitness ==
    /\ last # None
    /\ last[1].kind = "AttrVal"
    /\ last[1].text = <<"\\", "\"", "\\", "\\">>
    /\ input[last[1].end + 1] = "\""
    /\ tokens.pos = last[1].end + 1


KindsOf(t) == [i \in 1..Len(t.children) |-> t.children[i].kind]

\* the shape tree.rs expects of the node t
ConverterShape(t) ==
    CASE t.kind = "Document" -> KindsOf(t) = <<"InnerNode">>
      [] t.kind = "InnerNode" ->
             /\ Len(t.children) >= 2
             /\ t.children[1].kind = "OpenTag"
             /\ t.children[Len(t.children)].kind = "CloseTag"
             /\ \A i \in 2..(Len(t.children) - 1) :
                    t.children[i].kind \in {"InnerNode", "TextNode"}
      [] t.kind = "OpenTag" -> KindsOf(t) = <<"TagName", "Attrs">>
      [] t.kind = "Attrs" -> \A i \in 1..Len(t.children) : t.children[i].kind = "Attr"
      [] t.kind = "Attr" -> KindsOf(t) = <<"AttrName", "AttrVal">>
      [] OTHER -> TRUE

\* C30: the tree of a parse that reports no error has every shape the
\* conversion requires: the Document has one InnerNode child, an InnerNode
\* has an OpenTag first and a CloseTag last, an OpenTag a TagName and Attrs,
\* an Attr an AttrName and an AttrVal; the conversion run and main guard by
\* the check for no errors therefore does not panic.
ErrorFreeShapes ==
    (result # None /\ result[1].errors = <<>>) =>
        /\ result[1].result.kind = "Document"
        /\ \A t \in Nodes(result[1].result) : ConverterShape(t)
        /\ TreeFrom(result[1].result).panic = None

ErrorFreeShapesWitness ==
    /\ result # None
    /\ result[1].errors = <<>>
    /\ \E t \in Nodes(result[1].result) : t.kind = "Attrs" /\ Len(t.children) = 2
    /\ TreeFrom(result[1].result).panic = None


\* C31: process called on the tree it returned returns that tree again and
\* invokes no transform: from the second call on the transforms invoked
\* are those of the first call, the call does not run out of stack, and
\* what it returns is what the first call returned.
ProcessIdempotent ==
    proc.first # None =>
        /\ proc.calls = proc.first[1].calls
        /\ ~proc.overflow
        /\ proc.result # None => proc.result[1] = proc.first[1].result

ProcessIdempotentWitness ==
    /\ proc.first # None
    /\ proc.result # None
    /\ Len(proc.calls) >= 2
    /\ proc.result[1] # proc.tree
    /\ Cardinality(Elements(proc.result[1])) >= 3


\* C32: where parse reports no error for an input with no '#' and no
\* backslash, the parse of the converted tree written out reports no error
\* and its tree converts to the same tree.
RoundTrip ==
    (shown # None /\ Plain(shown[1].source) /\ result # None) =>
        /\ result[1].errors = <<>>
        /\ TreeFrom(result[1].result) = Ok(shown[1].tree)

\* <A x="1" y="">: two attributes, written out with nothing between them
RoundTripWitness ==
    /\ shown # None
    /\ result # None
    /\ Len(shown[1].tree.attrs) = 2
    /\ shown[1].tree.attrs[1][2] # shown[1].tree.attrs[2][2]
    /\ input # shown[1].source
    /\ Len(input) < Len(shown[1].source)


=============================================================================
